---- MODULE Spec2Model ----
(***************************************************************************)
(* Capture request/completion protocol of the camera firmware ABI          *)
(* (camrtc-capture.h): descriptor ring, progress syncpoint, capture status *)
(* and the error-mask / stop-on-error configuration of a capture channel,  *)
(* and the program binding of an ISP process channel.                      *)
(*                                                                         *)
(* Bit masks are modelled as sets of bit numbers: the mask value           *)
(* (1 << n) | (1 << m) is the set {n, m}.                                  *)
(***************************************************************************)
EXTENDS Integers, Sequences, FiniteSets, TLC

(* ---- bounds of the model ---- *)
MaxSeq == 3
MaxDepth == 2
MaxSlices == 1
MaxBase == 1
MaxProg == 2

(* ---- constants of the ABI ---- *)
CAPTURE_CHANNEL_FLAG_RESET_ON_ERROR == 11
CAPTURE_CHANNEL_FLAG_ENABLE_HSM_ERROR_MASKS == 14
CAPTURE_CHANNEL_ERROR_COLLISION == 18
CAPTURE_CHANNEL_ERROR_PIXEL_SHORT_LINE == 9
CAPTURE_STATUS_UNKNOWN == 0
CAPTURE_STATUS_SUCCESS == 1
CAPTURE_STATUS_CHANSEL_COLLISION == 6
CAPTURE_STATUS_FALCON_ERROR == 14
CAPTURE_STATUS_FLAG_CHANNEL_IN_ERROR == 1
CAPTURE_STATUS_NOTIFY_BIT_CHANSEL_PIXEL_SHORT_LINE == 34
CAPTURE_STATUS_NOTIFY_BIT_CHANSEL_FAULT_FE == 45
CAPTURE_STATUS_NOTIFY_BIT_CHANSEL_COLLISION == 47
CAPTURE_CHANNEL_ERROR_VI_FRAME_START_TIMEOUT == 23
CAPTURE_STATUS_NOTIFY_BIT_FRAME_START_TIMEOUT == 25
CAPTURE_STATUS_NOTIFY_BIT_FRAME_COMPLETION_TIMEOUT == 26
CAPTURE_ISP_STATUS_UNKNOWN == 0
CAPTURE_ISP_STATUS_SUCCESS == 1
CAPTURE_ISP_STATUS_ERROR == 2
CAPTURE_ISP_PROGRAM_STATUS_UNKNOWN == 0
CAPTURE_ISP_PROGRAM_STATUS_SUCCESS == 1
CAPTURE_ISP_PROGRAM_STATUS_ERROR == 2
CAPTURE_ISP_PROGRAM_STATUS_STALE == 3
CAPTURE_ACTIVATE_FLAG_ON_SEQUENCE_ID == 0
CAPTURE_ACTIVATE_FLAG_ON_SETTINGS_ID == 1
CAPTURE_ACTIVATE_FLAG_COUPLED == 2
CAPTURE_ISP_FLAG_ISP_PROGRAM_BINDING == 2
NVCSI_CONFIG_FLAG_ERROR == 2
VI_HSM_CSIMUX_ERROR_MASK_BIT_SPURIOUS_EVENT == 0
VI_HSM_CSIMUX_ERROR_MASK_BIT_OVERFLOW == 1
VI_HSM_CSIMUX_ERROR_MASK_BIT_LOF == 2
CAPTURE_DESCRIPTOR_ALIGN_BYTES == 64
QUEUE_DEPTH_MAX == 240

(* regmap_config.val_bits: the bits of a part of a MUX register *)
ValBits == 32

VARIABLES
    cfg,            \* capture_channel_config of each channel, fixed at setup
    chstate,        \* "Open" or "Error"
    resetting,      \* a reset of the channel has been requested and is draining
    ring,           \* descriptor ring: slot -> capture_descriptor
    next_seq,       \* producer: sequence number of the next submission
    observed,       \* producer: last value read from the progress syncpoint
    submit_result,  \* producer: outcome of the last submit attempt
    cur,            \* consumer: sequence being processed, -1 when idle
    cpc,            \* consumer: position inside the current request
    cslice,         \* consumer: slices written for the current request
    processed,      \* consumer: sequences whose completion has been signalled
    syncpt,         \* value of the progress syncpoint
    reports,        \* reports made to the System Error Handler for the request in work
    ev,             \* the last fault the consumer detected, and what it did
    completed,      \* history: order in which completions were signalled
    nwrites,        \* history: terminal status writes per slot occupancy
    stream,         \* what the sensor bound to the channel delivers
    isp_programs,   \* ISP channel: program ring, in order of submission
    isp_taken,      \* ISP channel: number of programs the consumer has activated
    isp_active,     \* ISP channel: programs the consumer holds active
    isp_requests,   \* ISP channel: process requests, in order of submission
    isp_consumed,   \* ISP channel: number of process requests consumed
    nvcsi_config,   \* NVCSI error configuration: flags and the CSIMUX masks
    hsm_report,     \* the last CSIMUX error and how it was reported to HSM
    setup_req,      \* channel setup: the ring geometry of the last request
    setup_result,   \* channel setup: "none", "ok" or "error"
    dce,            \* dce_driver_init: position, ret, boot_status, calls made
    eth,            \* nvethernet: interface, MACsec and PTP state behind sysfs
    ahub            \* AHUB crossbar: the MUX register parts of one widget

ispvars == <<isp_programs, isp_taken, isp_active, isp_requests, isp_consumed>>
hsmvars == <<nvcsi_config, hsm_report>>
setupvars == <<setup_req, setup_result>>
drvvars == <<hsmvars, setupvars, dce, eth, ahub>>

vars == <<cfg, chstate, resetting, ring, next_seq, observed, submit_result,
          cur, cpc, cslice, processed, syncpt, reports, ev, completed, nwrites,
          stream, ispvars, drvvars>>

prodvars == <<ring, next_seq, observed, submit_result, nwrites>>
consvars == <<cur, cpc, cslice, processed, syncpt, completed>>
envvars == <<stream, ispvars, drvvars>>
vivars == <<cfg, chstate, resetting, ring, next_seq, observed, submit_result,
            cur, cpc, cslice, processed, syncpt, reports, ev, completed, nwrites,
            stream>>

(* ---- the fault vocabulary ---- *)
Faults == {"COLLISION", "PIXEL_SHORT_LINE"}

ErrNum(f) ==
    IF f = "COLLISION" THEN CAPTURE_CHANNEL_ERROR_COLLISION
    ELSE CAPTURE_CHANNEL_ERROR_PIXEL_SHORT_LINE

NotifyBit(f) ==
    IF f = "COLLISION" THEN CAPTURE_STATUS_NOTIFY_BIT_CHANSEL_COLLISION
    ELSE CAPTURE_STATUS_NOTIFY_BIT_CHANSEL_PIXEL_SHORT_LINE

StatusOf(f) ==
    IF f = "COLLISION" THEN CAPTURE_STATUS_CHANSEL_COLLISION
    ELSE CAPTURE_STATUS_FALCON_ERROR

ErrNums == {ErrNum(f) : f \in Faults}
NotifyBits == {NotifyBit(f) : f \in Faults}

Min(S) == CHOOSE x \in S : \A y \in S : x <= y

Chans == DOMAIN cfg

(* ---- capture_channel_config ---- *)
ChannelFlagSets ==
    SUBSET {CAPTURE_CHANNEL_FLAG_RESET_ON_ERROR,
            CAPTURE_CHANNEL_FLAG_ENABLE_HSM_ERROR_MASKS}

(* channels of every ring geometry with the error masks in effect; each    *)
(* mask is empty or full                                                  *)
RingConfigs ==
    [queue_depth : {1, MaxDepth},
     channel_flags : {fl \in ChannelFlagSets :
                        CAPTURE_CHANNEL_FLAG_ENABLE_HSM_ERROR_MASKS \in fl},
     progress_sp : {MaxBase},
     slices : {0, MaxSlices},
     error_mask_uncorrectable : {{}, ErrNums},
     error_mask_correctable : {{}, ErrNums},
     stop_on_error_notify_bits : {{}, NotifyBits}]

(* channels of every flag and mask value, on a ring of two slots with one  *)
(* slice per frame                                                        *)
MaskConfigs ==
    [queue_depth : {2},
     channel_flags : ChannelFlagSets,
     progress_sp : {MaxBase},
     slices : {1},
     error_mask_uncorrectable : SUBSET ErrNums,
     error_mask_correctable : SUBSET ErrNums,
     stop_on_error_notify_bits : SUBSET NotifyBits]

(* channels of every ring geometry whose faults are either all reported   *)
(* uncorrected or all reported corrected, and never stop the channel by    *)
(* their notify bit                                                        *)
LiveConfigs ==
    {config \in RingConfigs :
        /\ config.error_mask_correctable = {}
        /\ config.stop_on_error_notify_bits = {}}

EmptySlot ==
    [used |-> FALSE, sequence |-> 0, status |-> CAPTURE_STATUS_UNKNOWN,
     flags |-> {}, notify_bits |-> {}]

Slot(c, n) == n % cfg[c].queue_depth

IncrPerRequest_final_only(c) == 1

IncrPerRequest_no_start_of_frame(c) == cfg[c].slices + 1

(* increments of the progress syncpoint per capture request: start of     *)
(* frame, every slice, and the final one after the status write           *)
IncrPerRequest(c) == 1 + cfg[c].slices + 1

Threshold_previous(c, n) == cfg[c].progress_sp + n * IncrPerRequest(c)

Threshold_at_frame_start(c, n) == cfg[c].progress_sp + n * IncrPerRequest(c) + 1

(* value of the progress syncpoint once request n has completed *)
Threshold(c, n) == cfg[c].progress_sp + (n + 1) * IncrPerRequest(c)

(* ---- fault classification for the System Error Handler ---- *)
Classify_correctable_mask_ignored(mask_u, mask_c, e) ==
    IF e \notin mask_u THEN "uncorrected" ELSE "corrected"

Classify_uncorrectable_mask_ignored(mask_u, mask_c, e) ==
    IF e \notin mask_c THEN "uncorrected" ELSE "none"

Classify_mask_as_enable(mask_u, mask_c, e) ==
    IF e \in mask_u THEN "uncorrected"
    ELSE IF e \in mask_c THEN "corrected"
    ELSE "none"

Classify_correctable_mask_first(mask_u, mask_c, e) ==
    IF e \in mask_c THEN "none"
    ELSE IF e \in mask_u THEN "corrected"
    ELSE "uncorrected"

Classify(mask_u, mask_c, e) ==
    IF e \notin mask_u THEN "uncorrected"
    ELSE IF e \notin mask_c THEN "corrected"
    ELSE "none"

MasksInEffect(c) == CAPTURE_CHANNEL_FLAG_ENABLE_HSM_ERROR_MASKS \in cfg[c].channel_flags

(* the two masks the firmware applies: the configured ones when the flag  *)
(* is set, otherwise a default that the ABI does not disclose             *)
EffectiveMasks(c) ==
    IF MasksInEffect(c)
    THEN {<<cfg[c].error_mask_uncorrectable, cfg[c].error_mask_correctable>>}
    ELSE (SUBSET ErrNums) \X (SUBSET ErrNums)

StopOnError_flag_only(c, f) ==
    CAPTURE_CHANNEL_FLAG_RESET_ON_ERROR \in cfg[c].channel_flags

StopOnError(c, f) ==
    \/ NotifyBit(f) \in cfg[c].stop_on_error_notify_bits
    \/ CAPTURE_CHANNEL_FLAG_RESET_ON_ERROR \in cfg[c].channel_flags

EntersError(c, f, sev) == StopOnError(c, f) \/ sev = "uncorrected"

NoEvent == [kind |-> "none", fault |-> "NONE", sev |-> "none"]

(* the sensor delivers whole frames, never starts a frame, or starts       *)
(* frames that never end                                                   *)
StreamKinds == {"frames", "no_start", "no_end"}

(* no ISP process channel is set up *)
IspIdle ==
    /\ isp_programs = <<>>
    /\ isp_taken = 0
    /\ isp_active = {}
    /\ isp_requests = <<>>
    /\ isp_consumed = 0

(* no NVCSI error configuration has been made *)
HsmIdle ==
    /\ nvcsi_config = <<>>
    /\ hsm_report = <<>>

(* no channel setup request has been made *)
SetupIdle ==
    /\ setup_req = <<>>
    /\ setup_result = "none"

(* the DCE driver is not being initialised *)
DceIdle == dce = <<>>

(* no nvethernet interface is registered *)
EthIdle == eth = <<>>

(* no AHUB crossbar widget is registered *)
AhubIdle == ahub = <<>>

(* nothing but the capture and process channels is in use *)
DriversIdle == HsmIdle /\ SetupIdle /\ DceIdle /\ EthIdle /\ AhubIdle

(* no capture channel is set up *)
ViNone ==
    /\ cfg = <<>> /\ chstate = <<>> /\ resetting = <<>> /\ ring = <<>>
    /\ next_seq = <<>> /\ observed = <<>> /\ submit_result = <<>>
    /\ cur = <<>> /\ cpc = <<>> /\ cslice = <<>> /\ processed = <<>>
    /\ syncpt = <<>> /\ reports = <<>> /\ ev = <<>> /\ completed = <<>>
    /\ nwrites = <<>> /\ stream = <<>>

(* ---- initial state: channel 1 set up, nothing submitted ---- *)
ChanSetUp(config) ==
    /\ cfg = [c \in {1} |-> config]
    /\ chstate = [c \in {1} |-> "Open"]
    /\ resetting = [c \in {1} |-> FALSE]
    /\ ring = [c \in {1} |-> [s \in 0..(config.queue_depth - 1) |-> EmptySlot]]
    /\ next_seq = [c \in {1} |-> 0]
    /\ observed = [c \in {1} |-> config.progress_sp]
    /\ submit_result = [c \in {1} |-> "none"]
    /\ cur = [c \in {1} |-> -1]
    /\ cpc = [c \in {1} |-> "idle"]
    /\ cslice = [c \in {1} |-> 0]
    /\ processed = [c \in {1} |-> {}]
    /\ syncpt = [c \in {1} |-> config.progress_sp]
    /\ reports = [c \in {1} |-> {}]
    /\ ev = [c \in {1} |-> NoEvent]
    /\ completed = [c \in {1} |-> <<>>]
    /\ nwrites = [c \in {1} |-> [s \in 0..(config.queue_depth - 1) |-> 0]]
    /\ stream \in [{1} -> StreamKinds]

InitChan(config) ==
    /\ ChanSetUp(config)
    /\ IspIdle
    /\ DriversIdle

Init == \E config \in RingConfigs : InitChan(config)

InitMasks == \E config \in MaskConfigs : InitChan(config)

InitLive == \E config \in LiveConfigs : InitChan(config)

(* ---- a ring of four slots, followed through sequences 0..4 ---- *)
WrapDepth == 4

WrapSeq == 5

WrapConfig ==
    [queue_depth |-> WrapDepth,
     channel_flags |-> {CAPTURE_CHANNEL_FLAG_ENABLE_HSM_ERROR_MASKS},
     progress_sp |-> MaxBase,
     slices |-> 1,
     error_mask_uncorrectable |-> {},
     error_mask_correctable |-> {},
     stop_on_error_notify_bits |-> {}]

InitWrap == InitChan(WrapConfig)

(* ---- initial state: two channels that have been running ---- *)
(* channel 1 reports every fault uncorrected and has a ring of two slots;  *)
(* channel 2 has one slot, one slice per frame, and either mask            *)
TwoChannelConfigs ==
    {cf \in [{1, 2} -> MaskConfigs \cup RingConfigs] :
        /\ cf[1].queue_depth = 2 /\ cf[1].slices = 0
        /\ cf[1].channel_flags = {CAPTURE_CHANNEL_FLAG_ENABLE_HSM_ERROR_MASKS}
        /\ cf[1].error_mask_uncorrectable = {}
        /\ cf[1].error_mask_correctable = {}
        /\ cf[1].stop_on_error_notify_bits = {}
        /\ cf[2].queue_depth = 1 /\ cf[2].slices = 1
        /\ cf[2].channel_flags = {CAPTURE_CHANNEL_FLAG_ENABLE_HSM_ERROR_MASKS}
        /\ cf[2].error_mask_uncorrectable \in {{}, ErrNums}
        /\ cf[2].error_mask_correctable = {}
        /\ cf[2].stop_on_error_notify_bits = {}}

(* the requests that went through slot s of a ring of the given depth when *)
(* k requests have been submitted                                          *)
WentThrough(depth, k, s) == {n \in 0..(k - 1) : n % depth = s}

(* the ring after k requests were submitted and completed with success *)
RingAfter(config, k) ==
    [s \in 0..(config.queue_depth - 1) |->
        IF WentThrough(config.queue_depth, k, s) = {} THEN EmptySlot
        ELSE [used |-> TRUE,
              sequence |-> CHOOSE n \in WentThrough(config.queue_depth, k, s) :
                             \A m \in WentThrough(config.queue_depth, k, s) : m <= n,
              status |-> CAPTURE_STATUS_SUCCESS,
              flags |-> {}, notify_bits |-> {}]]

(* the channels of cf, channel c having had done[c] requests submitted,    *)
(* completed with success and observed complete by the producer            *)
ChannelsAfter(cf, done) ==
    /\ cfg = cf
    /\ chstate = [c \in DOMAIN cf |-> "Open"]
    /\ resetting = [c \in DOMAIN cf |-> FALSE]
    /\ ring = [c \in DOMAIN cf |-> RingAfter(cf[c], done[c])]
    /\ next_seq = done
    /\ observed = [c \in DOMAIN cf |->
                     cf[c].progress_sp + done[c] * (1 + cf[c].slices + 1)]
    /\ submit_result = [c \in DOMAIN cf |->
                          IF done[c] = 0 THEN "none" ELSE "accepted"]
    /\ cur = [c \in DOMAIN cf |-> -1]
    /\ cpc = [c \in DOMAIN cf |-> "idle"]
    /\ cslice = [c \in DOMAIN cf |-> IF done[c] = 0 THEN 0 ELSE cf[c].slices]
    /\ processed = [c \in DOMAIN cf |-> 0..(done[c] - 1)]
    /\ syncpt = [c \in DOMAIN cf |->
                   cf[c].progress_sp + done[c] * (1 + cf[c].slices + 1)]
    /\ reports = [c \in DOMAIN cf |-> {}]
    /\ ev = [c \in DOMAIN cf |-> NoEvent]
    /\ completed = [c \in DOMAIN cf |-> [i \in 1..done[c] |-> i - 1]]
    /\ nwrites = [c \in DOMAIN cf |->
                    [s \in 0..(cf[c].queue_depth - 1) |->
                        IF WentThrough(cf[c].queue_depth, done[c], s) = {}
                        THEN 0 ELSE 1]]
    /\ stream = [c \in DOMAIN cf |-> "frames"]
    /\ IspIdle
    /\ DriversIdle

(* channel 1 has two requests to go, channel 2 one *)
InitTwoChannels ==
    \E cf \in TwoChannelConfigs :
        ChannelsAfter(cf, [c \in {1, 2} |-> IF c = 1 THEN MaxSeq - 2 ELSE MaxSeq - 1])

(* ---- producer ---- *)
SlotFree_whole_ring(c, s) ==
    \A t \in DOMAIN ring[c] :
        \/ ~ring[c][t].used
        \/ observed[c] >= Threshold(c, ring[c][t].sequence)

SlotFree_status_terminal(c, s) ==
    \/ ~ring[c][s].used
    \/ ring[c][s].status # CAPTURE_STATUS_UNKNOWN

SlotFree(c, s) ==
    \/ ~ring[c][s].used
    \/ observed[c] >= Threshold(c, ring[c][s].sequence)

ChannelAccepts_always(c) == TRUE

(* a channel in error state accepts no new capture request *)
ChannelAccepts(c) == chstate[c] = "Open"

SubmitAccepted(c) ==
    /\ ChannelAccepts(c)
    /\ SlotFree(c, Slot(c, next_seq[c]))

(* how far the sequence numbers of a channel are followed: a ring of       *)
(* WrapDepth slots through its wrap-around                                 *)
SeqBound(c) == IF cfg[c].queue_depth = WrapDepth THEN WrapSeq ELSE MaxSeq

Submit(c) ==
    /\ next_seq[c] < SeqBound(c)
    /\ IF SubmitAccepted(c)
       THEN /\ ring' = [ring EXCEPT ![c][Slot(c, next_seq[c])] =
                          [used |-> TRUE, sequence |-> next_seq[c],
                           status |-> CAPTURE_STATUS_UNKNOWN,
                           flags |-> {}, notify_bits |-> {}]]
            /\ nwrites' = [nwrites EXCEPT ![c][Slot(c, next_seq[c])] = 0]
            /\ next_seq' = [next_seq EXCEPT ![c] = @ + 1]
            /\ submit_result' = [submit_result EXCEPT ![c] = "accepted"]
       ELSE /\ submit_result' = [submit_result EXCEPT ![c] =
                                  IF chstate[c] = "Open" THEN "busy" ELSE "inerror"]
            /\ UNCHANGED <<ring, nwrites, next_seq>>
    /\ UNCHANGED envvars
    /\ UNCHANGED <<cfg, chstate, resetting, observed, reports, ev>>
    /\ UNCHANGED consvars

Poll(c) ==
    /\ observed[c] # syncpt[c]
    /\ observed' = [observed EXCEPT ![c] = syncpt[c]]
    /\ UNCHANGED envvars
    /\ UNCHANGED <<cfg, chstate, resetting, ring, next_seq, submit_result,
                   nwrites, reports, ev>>
    /\ UNCHANGED consvars

(* ---- consumer ---- *)
Pending_all_submitted(c) == 0..(next_seq[c] - 1)

Pending(c) == {n \in 0..(next_seq[c] - 1) : n \notin processed[c]}

Max(S) == CHOOSE x \in S : \A y \in S : x >= y

consume_next_newest(c) == Max(Pending(c))

consume_next(c) == Min(Pending(c))

signal_by_one(c, delta) == [syncpt EXCEPT ![c] = @ + 1]

signal_set_to_delta(c, delta) == [syncpt EXCEPT ![c] = cfg[c].progress_sp + delta]

signal(c, delta) == [syncpt EXCEPT ![c] = @ + delta]

ConsumeStart_one_channel_at_a_time(c) ==
    /\ stream[c] # "no_start"
    /\ \A d \in Chans : chstate[d] = "Open"
    /\ cpc[c] = "idle"
    /\ Pending(c) # {}
    /\ cur' = [cur EXCEPT ![c] = consume_next(c)]
    /\ cpc' = [cpc EXCEPT ![c] = "frame"]
    /\ cslice' = [cslice EXCEPT ![c] = 0]
    /\ syncpt' = signal(c, 1)
    /\ UNCHANGED envvars
    /\ UNCHANGED <<cfg, chstate, resetting, processed, completed, reports, ev>>
    /\ UNCHANGED prodvars

ConsumeStart(c) ==
    /\ stream[c] # "no_start"
    /\ chstate[c] = "Open"
    /\ cpc[c] = "idle"
    /\ Pending(c) # {}
    /\ cur' = [cur EXCEPT ![c] = consume_next(c)]
    /\ cpc' = [cpc EXCEPT ![c] = "frame"]
    /\ cslice' = [cslice EXCEPT ![c] = 0]
    /\ syncpt' = signal(c, 1)
    /\ UNCHANGED envvars
    /\ UNCHANGED <<cfg, chstate, resetting, processed, completed, reports, ev>>
    /\ UNCHANGED prodvars

SliceWritten(c) ==
    /\ cpc[c] = "frame"
    /\ cslice[c] < cfg[c].slices
    /\ cslice' = [cslice EXCEPT ![c] = @ + 1]
    /\ syncpt' = signal(c, 1)
    /\ UNCHANGED envvars
    /\ UNCHANGED <<cfg, chstate, resetting, cur, cpc, processed, completed,
                   reports, ev>>
    /\ UNCHANGED prodvars

WriteSlotStatus(c, n, st, fl, nb) ==
    /\ ring' = [ring EXCEPT ![c][Slot(c, n)] =
                  [@ EXCEPT !.status = st, !.flags = fl, !.notify_bits = nb]]
    /\ nwrites' = [nwrites EXCEPT ![c][Slot(c, n)] = @ + 1]

WriteStatusOk(c) ==
    /\ stream[c] = "frames"
    /\ cpc[c] = "frame"
    /\ cslice[c] = cfg[c].slices
    /\ WriteSlotStatus(c, cur[c], CAPTURE_STATUS_SUCCESS, {}, {})
    /\ cpc' = [cpc EXCEPT ![c] = "written"]
    /\ ev' = [ev EXCEPT ![c] = [kind |-> "ok", fault |-> "NONE",
                                sev |-> "none"]]
    /\ UNCHANGED envvars
    /\ UNCHANGED <<cfg, chstate, resetting, next_seq, observed, submit_result,
                   cur, cslice, processed, syncpt, completed, reports>>

WriteStatusFault(c, f) ==
    /\ stream[c] = "frames"
    /\ cpc[c] = "frame"
    /\ cslice[c] = cfg[c].slices
    /\ \E m \in EffectiveMasks(c) :
         LET sev == Classify(m[1], m[2], ErrNum(f))
             err == EntersError(c, f, sev)
         IN /\ WriteSlotStatus(c, cur[c], StatusOf(f),
                  IF err THEN {CAPTURE_STATUS_FLAG_CHANNEL_IN_ERROR} ELSE {},
                  {NotifyBit(f)})
            /\ reports' = [reports EXCEPT ![c] =
                  IF sev = "none" THEN {} ELSE {<<ErrNum(f), sev>>}]
            /\ chstate' = [chstate EXCEPT ![c] = IF err THEN "Error" ELSE @]
            /\ ev' = [ev EXCEPT ![c] = [kind |-> "fault", fault |-> f,
                                        sev |-> sev]]
    /\ cpc' = [cpc EXCEPT ![c] = "written"]
    /\ UNCHANGED envvars
    /\ UNCHANGED <<cfg, resetting, next_seq, observed, submit_result,
                   cur, cslice, processed, syncpt, completed>>

SignalCompletion(c) ==
    /\ cpc[c] = "written"
    /\ syncpt' = signal(c, 1)
    /\ processed' = [processed EXCEPT ![c] = @ \cup {cur[c]}]
    /\ completed' = [completed EXCEPT ![c] = Append(@, cur[c])]
    /\ cur' = [cur EXCEPT ![c] = -1]
    /\ cpc' = [cpc EXCEPT ![c] = "idle"]
    /\ ev' = [ev EXCEPT ![c] = NoEvent]
    /\ reports' = [reports EXCEPT ![c] = {}]
    /\ UNCHANGED envvars
    /\ UNCHANGED <<cfg, chstate, resetting, cslice>>
    /\ UNCHANGED prodvars

(* ---- frame timeouts, enforced by the consumer ---- *)
Timeouts == {"FRAME_START", "FRAME_COMPLETION"}

TimeoutNotifyBit(t) ==
    IF t = "FRAME_START" THEN CAPTURE_STATUS_NOTIFY_BIT_FRAME_START_TIMEOUT
    ELSE CAPTURE_STATUS_NOTIFY_BIT_FRAME_COMPLETION_TIMEOUT

(* the frame start timeout is a VI error number and is classified by the   *)
(* masks; the frame completion timeout is none and is not reported         *)
TimeoutSeverity(t, mask_u, mask_c) ==
    IF t = "FRAME_START"
    THEN Classify(mask_u, mask_c, CAPTURE_CHANNEL_ERROR_VI_FRAME_START_TIMEOUT)
    ELSE "none"

TimeoutStops(c, t) ==
    \/ TimeoutNotifyBit(t) \in cfg[c].stop_on_error_notify_bits
    \/ CAPTURE_CHANNEL_FLAG_RESET_ON_ERROR \in cfg[c].channel_flags

(* request n of channel c times out: its status is written *)
TimeoutStatus(c, t, n) ==
    /\ \E m \in EffectiveMasks(c) :
         LET sev == TimeoutSeverity(t, m[1], m[2])
             err == TimeoutStops(c, t) \/ sev = "uncorrected"
         IN /\ WriteSlotStatus(c, n, CAPTURE_STATUS_FALCON_ERROR,
                  IF err THEN {CAPTURE_STATUS_FLAG_CHANNEL_IN_ERROR} ELSE {},
                  {TimeoutNotifyBit(t)})
            /\ reports' = [reports EXCEPT ![c] =
                  IF sev = "none" THEN {}
                  ELSE {<<CAPTURE_CHANNEL_ERROR_VI_FRAME_START_TIMEOUT, sev>>}]
            /\ chstate' = [chstate EXCEPT ![c] = IF err THEN "Error" ELSE @]
            /\ ev' = [ev EXCEPT ![c] = [kind |-> "timeout", fault |-> t,
                                        sev |-> sev]]
    /\ cur' = [cur EXCEPT ![c] = n]
    /\ cpc' = [cpc EXCEPT ![c] = "timedout"]
    /\ UNCHANGED envvars
    /\ UNCHANGED <<cfg, resetting, next_seq, observed, submit_result,
                   cslice, processed, syncpt, completed>>

(* no start of frame within frame_start_timeout of the task activation *)
FrameStartTimeout(c) ==
    /\ chstate[c] = "Open"
    /\ cpc[c] = "idle"
    /\ Pending(c) # {}
    /\ TimeoutStatus(c, "FRAME_START", consume_next(c))

(* no end of frame within frame_completion_timeout of the frame start *)
FrameCompletionTimeout(c) ==
    /\ cpc[c] = "frame"
    /\ TimeoutStatus(c, "FRAME_COMPLETION", cur[c])

TimeoutDelta_one(c) == 1

(* what the progress syncpoint lacks to the threshold of the request *)
TimeoutDelta(c) == Threshold(c, cur[c]) - syncpt[c]

TimeoutSignal(c) ==
    /\ cpc[c] = "timedout"
    /\ syncpt' = signal(c, TimeoutDelta(c))
    /\ processed' = [processed EXCEPT ![c] = @ \cup {cur[c]}]
    /\ completed' = [completed EXCEPT ![c] = Append(@, cur[c])]
    /\ cur' = [cur EXCEPT ![c] = -1]
    /\ cpc' = [cpc EXCEPT ![c] = "idle"]
    /\ ev' = [ev EXCEPT ![c] = NoEvent]
    /\ reports' = [reports EXCEPT ![c] = {}]
    /\ UNCHANGED envvars
    /\ UNCHANGED <<cfg, chstate, resetting, cslice>>
    /\ UNCHANGED prodvars

(* ---- channel reset ---- *)
ResetReq(c) ==
    /\ chstate[c] = "Error"
    /\ ~resetting[c]
    /\ resetting' = [resetting EXCEPT ![c] = TRUE]
    /\ UNCHANGED envvars
    /\ UNCHANGED <<cfg, chstate, reports, ev>>
    /\ UNCHANGED prodvars
    /\ UNCHANGED consvars

DrainStatus(c) ==
    /\ resetting[c]
    /\ cpc[c] = "idle"
    /\ Pending(c) # {}
    /\ cur' = [cur EXCEPT ![c] = consume_next(c)]
    /\ WriteSlotStatus(c, consume_next(c), CAPTURE_STATUS_FALCON_ERROR,
                       {CAPTURE_STATUS_FLAG_CHANNEL_IN_ERROR},
                       {CAPTURE_STATUS_NOTIFY_BIT_CHANSEL_FAULT_FE})
    /\ cpc' = [cpc EXCEPT ![c] = "drained"]
    /\ UNCHANGED envvars
    /\ UNCHANGED <<cfg, chstate, resetting, next_seq, observed, submit_result,
                   cslice, processed, syncpt, completed, reports, ev>>

DrainSignal(c) ==
    /\ cpc[c] = "drained"
    /\ syncpt' = signal(c, IncrPerRequest(c))
    /\ processed' = [processed EXCEPT ![c] = @ \cup {cur[c]}]
    /\ completed' = [completed EXCEPT ![c] = Append(@, cur[c])]
    /\ cur' = [cur EXCEPT ![c] = -1]
    /\ cpc' = [cpc EXCEPT ![c] = "idle"]
    /\ UNCHANGED envvars
    /\ UNCHANGED <<cfg, chstate, resetting, cslice, reports, ev>>
    /\ UNCHANGED prodvars

ResetDone_restart_sequence(c) ==
    /\ resetting[c]
    /\ cpc[c] = "idle"
    /\ Pending(c) = {}
    /\ chstate' = [chstate EXCEPT ![c] = "Open"]
    /\ resetting' = [resetting EXCEPT ![c] = FALSE]
    /\ next_seq' = [next_seq EXCEPT ![c] = 0]
    /\ processed' = [processed EXCEPT ![c] = {}]
    /\ UNCHANGED envvars
    /\ UNCHANGED <<cfg, reports, ev, ring, observed, submit_result, nwrites,
                   cur, cpc, cslice, syncpt, completed>>

ResetDone(c) ==
    /\ resetting[c]
    /\ cpc[c] = "idle"
    /\ Pending(c) = {}
    /\ chstate' = [chstate EXCEPT ![c] = "Open"]
    /\ resetting' = [resetting EXCEPT ![c] = FALSE]
    /\ UNCHANGED envvars
    /\ UNCHANGED <<cfg, reports, ev>>
    /\ UNCHANGED prodvars
    /\ UNCHANGED consvars

Next ==
    \/ \E c \in Chans : Submit(c)
    \/ \E c \in Chans : Poll(c)
    \/ \E c \in Chans : ConsumeStart(c)
    \/ \E c \in Chans : SliceWritten(c)
    \/ \E c \in Chans : WriteStatusOk(c)
    \/ \E c \in Chans : \E f \in Faults : WriteStatusFault(c, f)
    \/ \E c \in Chans : SignalCompletion(c)
    \/ \E c \in Chans : FrameStartTimeout(c)
    \/ \E c \in Chans : FrameCompletionTimeout(c)
    \/ \E c \in Chans : TimeoutSignal(c)
    \/ \E c \in Chans : ResetReq(c)
    \/ \E c \in Chans : DrainStatus(c)
    \/ \E c \in Chans : DrainSignal(c)
    \/ \E c \in Chans : ResetDone(c)

Spec == Init /\ [][Next]_vars

SpecMasks == InitMasks /\ [][Next]_vars

SpecTwoChannels == InitTwoChannels /\ [][Next]_vars

SpecWrap == InitWrap /\ [][Next]_vars

ConsumerStep(c) ==
    \/ ConsumeStart(c)
    \/ SliceWritten(c)
    \/ WriteStatusOk(c)
    \/ \E f \in Faults : WriteStatusFault(c, f)
    \/ SignalCompletion(c)
    \/ FrameStartTimeout(c)
    \/ FrameCompletionTimeout(c)
    \/ TimeoutSignal(c)
    \/ DrainStatus(c)
    \/ DrainSignal(c)
    \/ ResetDone(c)

(* the consumer keeps running, and the owner of a channel in error state   *)
(* requests its reset                                                      *)
LiveSpec ==
    /\ InitLive
    /\ [][Next]_vars
    /\ WF_vars(ConsumerStep(1))
    /\ WF_vars(ResetReq(1))

(* the consumer keeps working on channel 2; nothing is assumed of the      *)
(* owner and of the consumer work of channel 1                             *)
LiveTwoChannels ==
    /\ InitTwoChannels
    /\ [][Next]_vars
    /\ WF_vars(ConsumerStep(2))

(* ---- two channels configured to catch the frames of one source ---- *)
(* channel c is armed with a request and takes the next start of frame *)
MatchesFrame(c) ==
    /\ stream[c] # "no_start"
    /\ chstate[c] = "Open"
    /\ cpc[c] = "idle"
    /\ Pending(c) # {}

(* a frame that only channel c matches *)
SoleFrameStart(c) ==
    /\ \A d \in Chans \ {c} : ~MatchesFrame(d)
    /\ ConsumeStart(c)

CollisionReporter_winner(w, l) == w

(* of the channel w that captures the frame and the other channel l, the   *)
(* one that reports the collision                                          *)
CollisionReporter(w, l) == l

(* a frame that channels w and l both match: w captures it, the other      *)
(* reports the collision for its conflicting request, which is completed   *)
(* as a request that saw no frame                                          *)
SharedFrameStart(w, l) ==
    /\ w # l
    /\ MatchesFrame(w)
    /\ MatchesFrame(l)
    /\ LET r == CollisionReporter(w, l)
           n == consume_next(r)
       IN \E m \in EffectiveMasks(r) :
            LET sev == Classify(m[1], m[2], ErrNum("COLLISION"))
                err == EntersError(r, "COLLISION", sev)
            IN /\ WriteSlotStatus(r, n, StatusOf("COLLISION"),
                     IF err THEN {CAPTURE_STATUS_FLAG_CHANNEL_IN_ERROR} ELSE {},
                     {NotifyBit("COLLISION")})
               /\ reports' = [reports EXCEPT ![r] =
                     IF sev = "none" THEN {} ELSE {<<ErrNum("COLLISION"), sev>>}]
               /\ chstate' = [chstate EXCEPT ![r] = IF err THEN "Error" ELSE @]
               /\ ev' = [ev EXCEPT ![r] = [kind |-> "fault", fault |-> "COLLISION",
                                           sev |-> sev]]
               /\ cur' = [cur EXCEPT ![w] = consume_next(w), ![r] = n]
               /\ cpc' = [cpc EXCEPT ![w] = "frame", ![r] = "timedout"]
    /\ cslice' = [cslice EXCEPT ![w] = 0]
    /\ syncpt' = signal(w, 1)
    /\ UNCHANGED envvars
    /\ UNCHANGED <<cfg, resetting, next_seq, observed, submit_result,
                   processed, completed>>

(* the source delivers whole frames, so no frame times out, and no second  *)
(* source sends a start of frame into a channel that is in a frame         *)
NextCollision ==
    \/ \E c \in Chans : Submit(c)
    \/ \E c \in Chans : Poll(c)
    \/ \E c \in Chans : SoleFrameStart(c)
    \/ \E w \in Chans : \E l \in Chans : SharedFrameStart(w, l)
    \/ \E c \in Chans : SliceWritten(c)
    \/ \E c \in Chans : WriteStatusOk(c)
    \/ \E c \in Chans : WriteStatusFault(c, "PIXEL_SHORT_LINE")
    \/ \E c \in Chans : SignalCompletion(c)
    \/ \E c \in Chans : TimeoutSignal(c)
    \/ \E c \in Chans : ResetReq(c)
    \/ \E c \in Chans : DrainStatus(c)
    \/ \E c \in Chans : DrainSignal(c)
    \/ \E c \in Chans : ResetDone(c)

SpecCollision == InitTwoChannels /\ [][NextCollision]_vars

(* ---- ISP process channel: programs and their binding ---- *)
ActivateFlags ==
    {CAPTURE_ACTIVATE_FLAG_ON_SEQUENCE_ID,
     CAPTURE_ACTIVATE_FLAG_ON_SETTINGS_ID,
     CAPTURE_ACTIVATE_FLAG_COUPLED}

(* program_buffer_index of a process request that no program is bound to *)
NoProgram == 0

(* the queue depths the ISP channel is set up with *)
request_queue_depth == 2

program_queue_depth == 1

Programs == 1..Len(isp_programs)

Requests == 1..Len(isp_requests)

(* an ISP channel set up, no program and no process request submitted *)
InitIsp ==
    /\ IspIdle
    /\ ViNone
    /\ DriversIdle

(* the frame ids a program submitted now can name: the frame submitted     *)
(* next, or with activation on sequence id a later one                     *)
ProgramSequences(flag) ==
    IF flag = CAPTURE_ACTIVATE_FLAG_ON_SEQUENCE_ID
    THEN Len(isp_requests)..(MaxSeq - 1)
    ELSE {Len(isp_requests)}

(* producer: a program request *)
IspProgramRequest(flag, seq) ==
    /\ Len(isp_programs) < MaxProg
    /\ Len(isp_programs) - isp_taken < program_queue_depth
    /\ isp_programs' = Append(isp_programs,
           [settings_id |-> Len(isp_programs) + 1,
            sequence |-> seq,
            activate_flags |-> {flag},
            status |-> CAPTURE_ISP_PROGRAM_STATUS_UNKNOWN])
    /\ UNCHANGED <<isp_taken, isp_active, isp_requests, isp_consumed>>
    /\ UNCHANGED <<vivars, drvvars>>

(* producer: a process request; the frame ids count from zero *)
IspProcessRequest(flags) ==
    /\ Len(isp_requests) < MaxSeq
    /\ Len(isp_requests) - isp_consumed < request_queue_depth
    /\ isp_requests' = Append(isp_requests,
           [sequence |-> Len(isp_requests),
            capture_flags |-> flags,
            status |-> CAPTURE_ISP_STATUS_UNKNOWN,
            fault |-> "none",
            program_buffer_index |-> NoProgram,
            taken_at_submit |-> isp_taken,
            taken_at_consume |-> 0])
    /\ UNCHANGED <<isp_programs, isp_taken, isp_active, isp_consumed>>
    /\ UNCHANGED <<vivars, drvvars>>

OnSequenceId(p) ==
    CAPTURE_ACTIVATE_FLAG_ON_SEQUENCE_ID \in isp_programs[p].activate_flags

(* a program activated on sequence id waits for the frame id it names; the *)
(* next frame the consumer processes has the id isp_consumed               *)
ActivationDue(p) == OnSequenceId(p) => isp_consumed >= isp_programs[p].sequence

Superseded_none(p) == {}

(* the programs that program p replaces when it is activated *)
Superseded(p) == isp_active

(* consumer: the next program of the program ring is activated *)
IspActivate ==
    /\ isp_taken < Len(isp_programs)
    /\ ActivationDue(isp_taken + 1)
    /\ isp_programs' = [q \in Programs |->
           IF q \in Superseded(isp_taken + 1)
           THEN [isp_programs[q] EXCEPT !.status = CAPTURE_ISP_PROGRAM_STATUS_STALE]
           ELSE isp_programs[q]]
    /\ isp_active' = (isp_active \ Superseded(isp_taken + 1)) \cup {isp_taken + 1}
    /\ isp_taken' = isp_taken + 1
    /\ UNCHANGED <<isp_requests, isp_consumed>>
    /\ UNCHANGED <<vivars, drvvars>>

Resolve_at_submission(r) == isp_requests[r].taken_at_submit

(* the program a process request resolves to: the one active now *)
Resolve(r) == IF isp_active = {} THEN NoProgram ELSE Max(isp_active)

Consumes_always(flags) == TRUE

Consumes_never(flags) == FALSE

(* a coupled program serves the one process request it is coupled with *)
Consumes(flags) == CAPTURE_ACTIVATE_FLAG_COUPLED \in flags

Resolvable(p) ==
    /\ p # NoProgram
    /\ ~(/\ Consumes(isp_programs[p].activate_flags)
         /\ isp_programs[p].status # CAPTURE_ISP_PROGRAM_STATUS_UNKNOWN)

IspWriteStatus(r, st, em, p) ==
    isp_requests' = [isp_requests EXCEPT ![r] =
        [@ EXCEPT !.status = st, !.fault = em,
                  !.program_buffer_index = p, !.taken_at_consume = isp_taken]]

(* consumer: the next process request is bound and processed; the fault of *)
(* a request is "none", "processing" (an error of the ISP channel error    *)
(* mask) or "unresolved_binding". A request without the binding flag uses  *)
(* no program; its processing result is not modelled and reads success.    *)
IspConsume ==
    /\ isp_consumed < Len(isp_requests)
    /\ ~(/\ isp_taken < Len(isp_programs)
         /\ OnSequenceId(isp_taken + 1)
         /\ ActivationDue(isp_taken + 1))
    /\ LET r == isp_consumed + 1
           p == Resolve(r)
       IN IF CAPTURE_ISP_FLAG_ISP_PROGRAM_BINDING \notin isp_requests[r].capture_flags
          THEN /\ IspWriteStatus(r, CAPTURE_ISP_STATUS_SUCCESS, "none", NoProgram)
               /\ UNCHANGED isp_programs
          ELSE IF ~Resolvable(p)
          THEN /\ IspWriteStatus(r, CAPTURE_ISP_STATUS_ERROR,
                                  "unresolved_binding", NoProgram)
               /\ UNCHANGED isp_programs
          ELSE \E ok \in BOOLEAN :
                 /\ IspWriteStatus(r,
                        IF ok THEN CAPTURE_ISP_STATUS_SUCCESS
                        ELSE CAPTURE_ISP_STATUS_ERROR,
                        IF ok THEN "none" ELSE "processing",
                        p)
                 /\ isp_programs' = [isp_programs EXCEPT ![p].status =
                        IF ok THEN CAPTURE_ISP_PROGRAM_STATUS_SUCCESS
                        ELSE CAPTURE_ISP_PROGRAM_STATUS_ERROR]
    /\ isp_consumed' = isp_consumed + 1
    /\ UNCHANGED <<isp_taken, isp_active>>
    /\ UNCHANGED <<vivars, drvvars>>

NextIsp ==
    \/ \E flag \in ActivateFlags : \E seq \in ProgramSequences(flag) :
          IspProgramRequest(flag, seq)
    \/ \E flags \in SUBSET {CAPTURE_ISP_FLAG_ISP_PROGRAM_BINDING} :
          IspProcessRequest(flags)
    \/ IspActivate
    \/ IspConsume

SpecIsp == InitIsp /\ [][NextIsp]_vars

(* ---- CSIMUX errors reported to HSM ---- *)
CsimuxErrors == {"SPURIOUS_EVENT", "OVERFLOW", "LOF"}

(* stream FIFO overflow and loss of frame: the unrecoverable errors *)
FatalCsimuxErrors == {"OVERFLOW", "LOF"}

CsimuxBit(e) ==
    IF e = "OVERFLOW" THEN VI_HSM_CSIMUX_ERROR_MASK_BIT_OVERFLOW
    ELSE IF e = "LOF" THEN VI_HSM_CSIMUX_ERROR_MASK_BIT_LOF
    ELSE VI_HSM_CSIMUX_ERROR_MASK_BIT_SPURIOUS_EVENT

CsimuxBits == {CsimuxBit(e) : e \in CsimuxErrors}

(* nvcsi_error_config: the flags of the NVCSI configuration and the two    *)
(* masks of its csimux_config                                              *)
NvcsiConfigs ==
    [flags : SUBSET {NVCSI_CONFIG_FLAG_ERROR},
     error_mask_correctable : SUBSET CsimuxBits,
     error_mask_uncorrectable : SUBSET CsimuxBits]

(* capture channels of every value of the two channel masks *)
HsmChannelConfigs ==
    {config \in MaskConfigs :
        /\ config.channel_flags = {CAPTURE_CHANNEL_FLAG_ENABLE_HSM_ERROR_MASKS}
        /\ config.stop_on_error_notify_bits = {}}

InitHsm ==
    /\ \E config \in HsmChannelConfigs : ChanSetUp(config)
    /\ IspIdle
    /\ SetupIdle /\ DceIdle /\ EthIdle /\ AhubIdle
    /\ nvcsi_config \in NvcsiConfigs
    /\ hsm_report = <<>>

(* the CSIMUX masks in use: the configured ones when the error settings    *)
(* are enabled, otherwise default settings                                  *)
EffectiveCsimuxMasks ==
    IF NVCSI_CONFIG_FLAG_ERROR \in nvcsi_config.flags
    THEN {<<nvcsi_config.error_mask_uncorrectable,
            nvcsi_config.error_mask_correctable>>}
    ELSE (SUBSET CsimuxBits) \X (SUBSET CsimuxBits)

CsimuxSeverity_fatal_unmaskable(mask_u, mask_c, e) ==
    IF e \in FatalCsimuxErrors THEN "uncorrected"
    ELSE Classify(mask_u, mask_c, CsimuxBit(e))

(* a mask bit suppresses the report, as for the channel masks *)
CsimuxSeverity(mask_u, mask_c, e) == Classify(mask_u, mask_c, CsimuxBit(e))

(* CSIMUX detects an error on the stream and reports it *)
CsimuxError(e) ==
    /\ nvcsi_config # <<>>
    /\ \E m \in EffectiveCsimuxMasks :
         hsm_report' = [error |-> e,
                        sev |-> CsimuxSeverity(m[1], m[2], e)]
    /\ UNCHANGED <<nvcsi_config, vivars, ispvars, setupvars, dce, eth, ahub>>

NextHsm == \E e \in CsimuxErrors : CsimuxError(e)

SpecHsm == InitHsm /\ [][NextHsm]_vars

(* ---- channel setup ---- *)
(* sizeof(struct capture_descriptor): a whole number of alignment units *)
DescriptorSize == 2 * CAPTURE_DESCRIPTOR_ALIGN_BYTES

(* ring geometries a client can ask for: base address zero, misaligned or  *)
(* aligned; slot size too small, misaligned or right; depth below, in and  *)
(* above the range                                                         *)
SetupRequests ==
    [requests : {0, CAPTURE_DESCRIPTOR_ALIGN_BYTES \div 2,
                 CAPTURE_DESCRIPTOR_ALIGN_BYTES},
     request_size : {DescriptorSize - CAPTURE_DESCRIPTOR_ALIGN_BYTES,
                     DescriptorSize,
                     DescriptorSize + CAPTURE_DESCRIPTOR_ALIGN_BYTES \div 2},
     queue_depth : {0, 1, MaxDepth, QUEUE_DEPTH_MAX, QUEUE_DEPTH_MAX + 1}]

Aligned(v) == v % CAPTURE_DESCRIPTOR_ALIGN_BYTES = 0

ValidSetup_depth_only(conf) ==
    conf.queue_depth >= 1 /\ conf.queue_depth <= QUEUE_DEPTH_MAX

ValidSetup(conf) ==
    /\ conf.requests # 0
    /\ Aligned(conf.requests)
    /\ conf.request_size >= DescriptorSize
    /\ Aligned(conf.request_size)
    /\ conf.queue_depth >= 1
    /\ conf.queue_depth <= QUEUE_DEPTH_MAX

(* the channel a valid setup request creates *)
ChannelOf(conf) ==
    [queue_depth |-> conf.queue_depth,
     channel_flags |-> {CAPTURE_CHANNEL_FLAG_ENABLE_HSM_ERROR_MASKS},
     progress_sp |-> MaxBase,
     slices |-> MaxSlices,
     error_mask_uncorrectable |-> {},
     error_mask_correctable |-> {},
     stop_on_error_notify_bits |-> {}]

(* channel 1 comes into being as ChanSetUp describes it *)
ChanCreate(config) ==
    /\ cfg' = [c \in {1} |-> config]
    /\ chstate' = [c \in {1} |-> "Open"]
    /\ resetting' = [c \in {1} |-> FALSE]
    /\ ring' = [c \in {1} |-> [s \in 0..(config.queue_depth - 1) |-> EmptySlot]]
    /\ next_seq' = [c \in {1} |-> 0]
    /\ observed' = [c \in {1} |-> config.progress_sp]
    /\ submit_result' = [c \in {1} |-> "none"]
    /\ cur' = [c \in {1} |-> -1]
    /\ cpc' = [c \in {1} |-> "idle"]
    /\ cslice' = [c \in {1} |-> 0]
    /\ processed' = [c \in {1} |-> {}]
    /\ syncpt' = [c \in {1} |-> config.progress_sp]
    /\ reports' = [c \in {1} |-> {}]
    /\ ev' = [c \in {1} |-> NoEvent]
    /\ completed' = [c \in {1} |-> <<>>]
    /\ nwrites' = [c \in {1} |-> [s \in 0..(config.queue_depth - 1) |-> 0]]
    /\ stream' \in [{1} -> StreamKinds]

(* a channel setup request: a configuration error is answered with an     *)
(* error and creates no channel                                            *)
ChannelSetup(conf) ==
    /\ Chans = {}
    /\ setup_req' = conf
    /\ IF ValidSetup(conf)
       THEN /\ setup_result' = "ok"
            /\ ChanCreate(ChannelOf(conf))
       ELSE /\ setup_result' = "error"
            /\ UNCHANGED vivars
    /\ UNCHANGED <<ispvars, hsmvars, dce, eth, ahub>>

InitSetup ==
    /\ ViNone
    /\ IspIdle
    /\ DriversIdle

NextSetup ==
    \/ \E conf \in SetupRequests : ChannelSetup(conf)
    \/ Next

SpecSetup == InitSetup /\ [][NextSetup]_vars

(* ---- dce_driver_init ---- *)
capvars == <<vivars, ispvars, hsmvars, setupvars>>

(* what the three init functions can return: 0 or an error code *)
DceRets == {0, -22, -12, 1}

DceStatusBits == {"DCE_STATUS_FAILED", "DCE_STATUS_OTHER"}

InitDce ==
    /\ ViNone /\ IspIdle /\ HsmIdle /\ SetupIdle /\ EthIdle /\ AhubIdle
    /\ \E st \in SUBSET DceStatusBits :
         dce = [pc |-> "dce_boot_interface_init", ret |-> 0,
                boot_status |-> st, entry_status |-> st, calls |-> <<>>]

DceErrLabel_unwind_all(fn) == "err_worker_thread_init"

(* the label an init function's failure jumps to *)
DceErrLabel(fn) ==
    IF fn = "dce_boot_interface_init" THEN "err_boot_interface_init"
    ELSE IF fn = "dce_admin_init" THEN "err_admin_interface_init"
    ELSE "err_worker_thread_init"

(* ret = fn(d); if (ret) goto the error label; else go on with next *)
DceInitCall(fn, next) ==
    /\ dce.pc = fn
    /\ \E r \in DceRets :
         dce' = [dce EXCEPT !.ret = r,
                            !.calls = Append(@, <<fn, r>>),
                            !.pc = IF r # 0 THEN DceErrLabel(fn) ELSE next]
    /\ UNCHANGED <<capvars, eth, ahub>>

DceBootInterfaceInit ==
    /\ dce # <<>>
    /\ DceInitCall("dce_boot_interface_init", "dce_admin_init")

DceAdminInit ==
    /\ dce # <<>>
    /\ DceInitCall("dce_admin_init", "dce_worker_thread_init")

DceWorkerThreadInit ==
    /\ dce # <<>>
    /\ DceInitCall("dce_worker_thread_init", "return")

(* err_worker_thread_init: dce_admin_deinit(d) *)
DceErrWorkerThreadInit ==
    /\ dce # <<>>
    /\ dce.pc = "err_worker_thread_init"
    /\ dce' = [dce EXCEPT !.calls = Append(@, <<"dce_admin_deinit", 0>>),
                          !.pc = "err_admin_interface_init"]
    /\ UNCHANGED <<capvars, eth, ahub>>

(* err_admin_interface_init: dce_boot_interface_deinit(d) *)
DceErrAdminInterfaceInit ==
    /\ dce # <<>>
    /\ dce.pc = "err_admin_interface_init"
    /\ dce' = [dce EXCEPT !.calls = Append(@, <<"dce_boot_interface_deinit", 0>>),
                          !.pc = "err_boot_interface_init"]
    /\ UNCHANGED <<capvars, eth, ahub>>

(* err_boot_interface_init: d->boot_status |= DCE_STATUS_FAILED; return ret *)
DceErrBootInterfaceInit ==
    /\ dce # <<>>
    /\ dce.pc = "err_boot_interface_init"
    /\ dce' = [dce EXCEPT !.boot_status = @ \cup {"DCE_STATUS_FAILED"},
                          !.pc = "return"]
    /\ UNCHANGED <<capvars, eth, ahub>>

(* dce_driver_deinit, called on a driver whose init returned 0 *)
DceDriverDeinit ==
    /\ dce # <<>>
    /\ dce.pc = "return"
    /\ dce.ret = 0
    /\ dce' = [dce EXCEPT !.calls = @ \o <<<<"dce_worker_thread_deinit", 0>>,
                                            <<"dce_admin_deinit", 0>>,
                                            <<"dce_boot_interface_deinit", 0>>,
                                            <<"dce_release_fw", 0>>>>,
                          !.pc = "deinit"]
    /\ UNCHANGED <<capvars, eth, ahub>>

NextDce ==
    \/ DceBootInterfaceInit
    \/ DceAdminInit
    \/ DceWorkerThreadInit
    \/ DceErrWorkerThreadInit
    \/ DceErrAdminInterfaceInit
    \/ DceErrBootInterfaceInit
    \/ DceDriverDeinit

SpecDce == InitDce /\ [][NextDce]_vars

(* ---- nvethernet sysfs ---- *)

(* the characters of a string literal of the handlers *)
Lit(name) ==
    CASE name = "enable" -> <<"e", "n", "a", "b", "l", "e">>
      [] name = "disable" -> <<"d", "i", "s", "a", "b", "l", "e">>
      [] name = "master" -> <<"m", "a", "s", "t", "e", "r">>
      [] name = "slave" -> <<"s", "l", "a", "v", "e">>
      [] name = "onestep" -> <<"o", "n", "e", "s", "t", "e", "p">>
      [] name = "twostep" -> <<"t", "w", "o", "s", "t", "e", "p">>
      [] name = "0" -> <<"0">>
      [] name = "txrx" -> <<"t", "x", "r", "x">>
      [] name = "tx" -> <<"t", "x">>
      [] name = "rx" -> <<"r", "x">>
      [] name = "carrier_on" -> <<"c", "a", "r", "r", "i", "e", "r", "_", "o", "n">>
      [] name = "carrier_off" -> <<"c", "a", "r", "r", "i", "e", "r", "_", "o", "f", "f">>

(* what user space writes to an attribute: the keywords of the handlers,
   with and without a trailing line feed or other characters, prefixes of
   keywords, the empty write and text that is no keyword *)
EthBufs ==
    { <<>>,
      <<"e", "n", "a", "b", "l", "e", "LF">>,
      <<"d", "i", "s", "a", "b", "l", "e">>,
      <<"e", "n", "a", "b", "l", "e", "d">>,
      <<"m", "a", "s", "t", "e", "r", "LF">>,
      <<"s", "l", "a", "v", "e">>,
      <<"o", "n", "e", "s", "t", "e", "p">>,
      <<"t", "w", "o", "s", "t", "e", "p", "LF">>,
      <<"0">>,
      <<"t", "x", "r", "x">>,
      <<"t", "x", "LF">>,
      <<"t", "x", "r">>,
      <<"r", "x">>,
      <<"t">>,
      <<"c", "a", "r", "r", "i", "e", "r", "_", "o", "n">>,
      <<"c", "a", "r", "r", "i", "e", "r", "_", "o", "f", "f", "LF">>,
      <<"1">> }

(* the character at position i of a NUL-terminated string *)
Char(s, i) == IF i <= Len(s) THEN s[i] ELSE "NUL"

(* strncmp(s, t, n) == 0: the strings agree on the first n characters, or
   up to and including a NUL before that *)
strncmp_eq(s, t, n) ==
    \A i \in 1..n :
        (\A j \in 1..(i - 1) : Char(s, j) # "NUL") => Char(s, i) = Char(t, i)

(* buf starts with the keyword: strncmp(buf, "keyword", strlen) == 0 *)
Is(buf, name) == strncmp_eq(buf, Lit(name), Len(Lit(name)))

(* return codes of the OSI calls, macsec_open and macsec_close *)
OsiRets == {0, -1}

(* a registered interface that is down *)
InitEth ==
    /\ ViNone /\ IspIdle /\ HsmIdle /\ SetupIdle /\ DceIdle /\ AhubIdle
    /\ \E m \in {{}, {"OSI_PTP_SYNC_MASTER"}, {"OSI_PTP_SYNC_SLAVE"}},
          s \in {{}, {"OSI_PTP_SYNC_ONESTEP"}, {"OSI_PTP_SYNC_TWOSTEP"}} :
         eth = [running |-> FALSE, link |-> FALSE, carrier |-> FALSE,
                mac_loopback_mode |-> 0, loopback_mode |-> 0,
                ptp_flag |-> m \cup s,
                enabled |-> {}, hw_enabled |-> {},
                table |-> "none", pc |-> "idle", calls |-> <<>>,
                size |-> 0, ret |-> 0]

netif_running_always(ndev) == TRUE

netif_running(ndev) == ndev.running

(* a write to an attribute runs its store handler: "Not Allowed" when the
   interface is down, else the handler's body; either way it returns size *)
Store(buf, body) ==
    /\ eth # <<>>
    /\ eth.pc = "idle"
    /\ eth' = IF ~netif_running(eth)
              THEN [eth EXCEPT !.pc = "returned",
                               !.size = Len(buf), !.ret = Len(buf)]
              ELSE [body EXCEPT !.pc = "returned",
                                !.size = Len(buf), !.ret = Len(buf)]
    /\ UNCHANGED <<capvars, dce, ahub>>

(* the writer has the return value; the next write can be made *)
WriteReturns ==
    /\ eth # <<>>
    /\ eth.pc = "returned"
    /\ eth' = [eth EXCEPT !.pc = "idle", !.calls = <<>>,
                          !.size = 0, !.ret = 0]
    /\ UNCHANGED <<capvars, dce, ahub>>

(* the interface is brought up or down *)
EthOpen ==
    /\ eth # <<>>
    /\ eth.pc = "idle"
    /\ ~eth.running
    /\ eth' = [eth EXCEPT !.running = TRUE]
    /\ UNCHANGED <<capvars, dce, ahub>>

EthStop ==
    /\ eth # <<>>
    /\ eth.pc = "idle"
    /\ eth.running
    /\ eth' = [eth EXCEPT !.running = FALSE]
    /\ UNCHANGED <<capvars, dce, ahub>>

(* the PHY reports a link change; the PHY framework sets the carrier *)
PhyLinkChange ==
    /\ eth # <<>>
    /\ eth.pc = "idle"
    /\ eth.running
    /\ eth' = [eth EXCEPT !.link = ~@, !.carrier = ~eth.link]
    /\ UNCHANGED <<capvars, dce, ahub>>

ether_mac_loopback_store ==
    /\ eth # <<>>
    /\ \E buf \in EthBufs, r \in OsiRets :
           Store(buf,
               IF Is(buf, "enable")
               THEN [eth EXCEPT !.carrier = IF ~eth.link THEN TRUE ELSE @,
                                !.calls = <<"OSI_CMD_MAC_LB">>,
                                !.mac_loopback_mode = IF r < 0 THEN @ ELSE 1]
               ELSE IF Is(buf, "disable")
               THEN [eth EXCEPT !.carrier = IF ~eth.link THEN FALSE ELSE @,
                                !.calls = <<"OSI_CMD_MAC_LB">>,
                                !.mac_loopback_mode = IF r < 0 THEN @ ELSE 0]
               ELSE [eth EXCEPT !.calls = <<>>])

(* macsec_open and macsec_close are not part of this file: they enable
   both controllers, or disable both, and record it, when they succeed *)
macsec_open(e, r) ==
    IF r < 0 THEN [e EXCEPT !.calls = Append(@, "macsec_open")]
    ELSE [e EXCEPT !.calls = Append(@, "macsec_open"),
                   !.enabled = {"OSI_MACSEC_TX_EN", "OSI_MACSEC_RX_EN"},
                   !.hw_enabled = {"OSI_MACSEC_TX_EN", "OSI_MACSEC_RX_EN"}]

macsec_close(e, r) ==
    IF r < 0 THEN [e EXCEPT !.calls = Append(@, "macsec_close")]
    ELSE [e EXCEPT !.calls = Append(@, "macsec_close"),
                   !.enabled = {}, !.hw_enabled = {}]

(* osi_macsec_en: the controllers in enable are on, the others off *)
osi_macsec_en(e, enable, r) ==
    IF r < 0 THEN [e EXCEPT !.calls = Append(@, "osi_macsec_en")]
    ELSE [e EXCEPT !.calls = Append(@, "osi_macsec_en"),
                   !.hw_enabled = enable]

(* the "tx" and "rx" branches of macsec_enable_store *)
MacsecEnableOne(e, ctlr, r_open, r_en) ==
    LET opened == IF e.enabled = {} THEN macsec_open(e, r_open) ELSE e
    IN  [osi_macsec_en(opened, {ctlr}, r_en) EXCEPT !.enabled = {ctlr}]

macsec_enable_store ==
    /\ eth # <<>>
    /\ \E buf \in EthBufs, r_open \in OsiRets, r_en \in OsiRets :
           LET e == eth
           IN  Store(buf,
                   IF Is(buf, "0") THEN macsec_close(e, r_open)
                   ELSE IF Is(buf, "txrx") THEN macsec_open(e, r_open)
                   ELSE IF Is(buf, "tx")
                   THEN MacsecEnableOne(e, "OSI_MACSEC_TX_EN", r_open, r_en)
                   ELSE IF Is(buf, "rx")
                   THEN MacsecEnableOne(e, "OSI_MACSEC_RX_EN", r_open, r_en)
                   ELSE e)

(* what macsec_enable_show prints for a value of macsec_pdata->enabled *)
macsec_enable_show(enabled) ==
    IF enabled = {"OSI_MACSEC_TX_EN", "OSI_MACSEC_RX_EN"} THEN "txrx"
    ELSE IF enabled = {"OSI_MACSEC_TX_EN"} THEN "tx"
    ELSE IF enabled = {"OSI_MACSEC_RX_EN"} THEN "rx"
    ELSE "None"

macsec_loopback_store ==
    /\ eth # <<>>
    /\ \E buf \in EthBufs, r \in OsiRets :
           Store(buf,
               IF Is(buf, "enable")
               THEN [eth EXCEPT !.calls = <<"osi_macsec_loopback">>,
                                !.loopback_mode = IF r < 0 THEN @ ELSE 1]
               ELSE IF Is(buf, "disable")
               THEN [eth EXCEPT !.calls = <<"osi_macsec_loopback">>,
                                !.loopback_mode = IF r < 0 THEN @ ELSE 0]
               ELSE IF Is(buf, "carrier_on")
               THEN [eth EXCEPT !.calls = <<>>, !.carrier = TRUE]
               ELSE IF Is(buf, "carrier_off")
               THEN [eth EXCEPT !.calls = <<>>, !.carrier = FALSE]
               ELSE [eth EXCEPT !.calls = <<>>])

(* a table store: parse, range checks, then the OSI call that writes the
   entry; every path returns size. Of the text the model keeps the size
   and how it parses: sscanf fails, a value is out of range, or the entry
   is accepted *)
MacsecTableStore(tbl, osi_call) ==
    \E buf \in {<<>>, <<"0", " ", "1", "LF">>},
       in \in {"unparsed", "out_of_range", "ok"}, r \in OsiRets :
        Store(buf,
            IF in # "ok" THEN [eth EXCEPT !.calls = <<>>]
            ELSE [eth EXCEPT !.calls = <<osi_call>>,
                             !.table = IF r < 0 THEN @ ELSE tbl])

macsec_byp_lut_store ==
    /\ eth # <<>>
    /\ MacsecTableStore("LUT_SEL_BYPASS", "osi_macsec_lut_config")

macsec_dbg_events_store ==
    /\ eth # <<>>
    /\ MacsecTableStore("DBG_EVENTS", "osi_macsec_dbg_events_config")

macsec_sci_lut_store ==
    /\ eth # <<>>
    /\ MacsecTableStore("LUT_SEL_SCI", "osi_macsec_lut_config")

macsec_kt_store ==
    /\ eth # <<>>
    /\ MacsecTableStore("KT", "osi_macsec_kt_config")

macsec_sc_state_lut_store ==
    /\ eth # <<>>
    /\ MacsecTableStore("LUT_SEL_SC_STATE", "osi_macsec_lut_config")

macsec_sa_state_lut_store ==
    /\ eth # <<>>
    /\ MacsecTableStore("LUT_SEL_SA_STATE", "osi_macsec_lut_config")

macsec_sc_param_lut_store ==
    /\ eth # <<>>
    /\ MacsecTableStore("LUT_SEL_SC_PARAM", "osi_macsec_lut_config")

ether_ptp_mode_store ==
    /\ eth # <<>>
    /\ \E buf \in EthBufs :
           Store(buf,
               IF Is(buf, "master")
               THEN [eth EXCEPT !.calls = <<>>,
                                !.ptp_flag = (@ \ {"OSI_PTP_SYNC_MASTER", "OSI_PTP_SYNC_SLAVE"})
                                                 \cup {"OSI_PTP_SYNC_MASTER"}]
               ELSE IF Is(buf, "slave")
               THEN [eth EXCEPT !.calls = <<>>,
                                !.ptp_flag = (@ \ {"OSI_PTP_SYNC_MASTER", "OSI_PTP_SYNC_SLAVE"})
                                                 \cup {"OSI_PTP_SYNC_SLAVE"}]
               ELSE [eth EXCEPT !.calls = <<>>])

ether_ptp_sync_store ==
    /\ eth # <<>>
    /\ \E buf \in EthBufs :
           Store(buf,
               IF Is(buf, "onestep")
               THEN [eth EXCEPT !.calls = <<>>,
                                !.ptp_flag = (@ \ {"OSI_PTP_SYNC_ONESTEP", "OSI_PTP_SYNC_TWOSTEP"})
                                                 \cup {"OSI_PTP_SYNC_ONESTEP"}]
               ELSE IF Is(buf, "twostep")
               THEN [eth EXCEPT !.calls = <<>>,
                                !.ptp_flag = (@ \ {"OSI_PTP_SYNC_ONESTEP", "OSI_PTP_SYNC_TWOSTEP"})
                                                 \cup {"OSI_PTP_SYNC_TWOSTEP"}]
               ELSE [eth EXCEPT !.calls = <<>>])

NextEth ==
    \/ WriteReturns
    \/ EthOpen
    \/ EthStop
    \/ PhyLinkChange
    \/ ether_mac_loopback_store
    \/ ether_ptp_mode_store
    \/ ether_ptp_sync_store
    \/ macsec_enable_store
    \/ macsec_loopback_store
    \/ macsec_byp_lut_store
    \/ macsec_dbg_events_store
    \/ macsec_sci_lut_store
    \/ macsec_kt_store
    \/ macsec_sc_state_lut_store
    \/ macsec_sa_state_lut_store
    \/ macsec_sc_param_lut_store

SpecEth == InitEth /\ [][NextEth]_vars

(* ---- AHUB crossbar MUX ---- *)

(* the value of the input at bit nbit of part npart of a MUX register:
   one more than its bit position, 0 being "None" *)
MUX_VALUE(npart, nbit) == 1 + nbit + npart * ValBits

tegra210_ahub_mux_values ==
    <<0, MUX_VALUE(0, 0), MUX_VALUE(0, 1), MUX_VALUE(0, 2),
      MUX_VALUE(0, 3), MUX_VALUE(0, 4), MUX_VALUE(0, 5),
      MUX_VALUE(0, 6), MUX_VALUE(0, 7), MUX_VALUE(0, 8),
      MUX_VALUE(0, 9), MUX_VALUE(0, 16), MUX_VALUE(0, 17),
      MUX_VALUE(0, 18), MUX_VALUE(0, 19), MUX_VALUE(0, 20),
      MUX_VALUE(0, 24), MUX_VALUE(0, 25), MUX_VALUE(0, 26),
      MUX_VALUE(0, 27), MUX_VALUE(1, 0), MUX_VALUE(1, 1),
      MUX_VALUE(1, 2), MUX_VALUE(1, 3), MUX_VALUE(1, 4),
      MUX_VALUE(1, 8), MUX_VALUE(1, 9), MUX_VALUE(1, 24),
      MUX_VALUE(1, 25), MUX_VALUE(1, 26), MUX_VALUE(1, 27),
      MUX_VALUE(1, 28), MUX_VALUE(1, 29), MUX_VALUE(2, 0),
      MUX_VALUE(2, 1), MUX_VALUE(2, 4), MUX_VALUE(2, 8),
      MUX_VALUE(2, 9), MUX_VALUE(2, 12), MUX_VALUE(2, 13),
      MUX_VALUE(2, 14), MUX_VALUE(2, 15), MUX_VALUE(2, 18),
      MUX_VALUE(2, 19), MUX_VALUE(2, 20), MUX_VALUE(2, 24),
      MUX_VALUE(2, 25), MUX_VALUE(2, 26), MUX_VALUE(2, 27),
      MUX_VALUE(2, 28), MUX_VALUE(2, 29), MUX_VALUE(2, 30),
      MUX_VALUE(2, 31)>>

tegra186_ahub_mux_values ==
    <<0, MUX_VALUE(0, 0), MUX_VALUE(0, 1), MUX_VALUE(0, 2),
      MUX_VALUE(0, 3), MUX_VALUE(0, 4), MUX_VALUE(0, 5),
      MUX_VALUE(0, 6), MUX_VALUE(0, 7), MUX_VALUE(0, 8),
      MUX_VALUE(0, 9), MUX_VALUE(0, 10), MUX_VALUE(0, 11),
      MUX_VALUE(0, 12), MUX_VALUE(0, 13), MUX_VALUE(0, 14),
      MUX_VALUE(0, 15), MUX_VALUE(0, 16), MUX_VALUE(0, 17),
      MUX_VALUE(0, 18), MUX_VALUE(0, 19), MUX_VALUE(0, 20),
      MUX_VALUE(0, 21), MUX_VALUE(0, 24), MUX_VALUE(0, 25),
      MUX_VALUE(0, 26), MUX_VALUE(0, 27), MUX_VALUE(1, 0),
      MUX_VALUE(1, 1), MUX_VALUE(1, 2), MUX_VALUE(1, 3),
      MUX_VALUE(1, 4), MUX_VALUE(1, 8), MUX_VALUE(1, 9),
      MUX_VALUE(1, 10), MUX_VALUE(1, 11), MUX_VALUE(1, 16),
      MUX_VALUE(1, 24), MUX_VALUE(1, 25), MUX_VALUE(1, 26),
      MUX_VALUE(1, 27), MUX_VALUE(1, 28), MUX_VALUE(1, 29),
      MUX_VALUE(2, 0), MUX_VALUE(2, 4), MUX_VALUE(2, 8),
      MUX_VALUE(2, 9), MUX_VALUE(2, 12), MUX_VALUE(2, 13),
      MUX_VALUE(2, 14), MUX_VALUE(2, 15), MUX_VALUE(2, 18),
      MUX_VALUE(2, 19), MUX_VALUE(2, 20), MUX_VALUE(2, 21),
      MUX_VALUE(2, 24), MUX_VALUE(2, 25), MUX_VALUE(2, 26),
      MUX_VALUE(2, 27), MUX_VALUE(2, 28), MUX_VALUE(2, 29),
      MUX_VALUE(2, 30), MUX_VALUE(2, 31), MUX_VALUE(3, 0),
      MUX_VALUE(3, 1), MUX_VALUE(3, 2), MUX_VALUE(3, 3),
      MUX_VALUE(3, 4), MUX_VALUE(3, 5), MUX_VALUE(3, 6),
      MUX_VALUE(3, 7), MUX_VALUE(3, 16), MUX_VALUE(3, 17),
      MUX_VALUE(3, 18), MUX_VALUE(3, 19), MUX_VALUE(3, 24),
      MUX_VALUE(3, 25), MUX_VALUE(3, 26), MUX_VALUE(3, 27),
      MUX_VALUE(3, 28), MUX_VALUE(3, 29)>>

(* the mask of part i of a MUX register: the bits that select an input *)
XbarRegMask(values, i) ==
    {b \in 0..(ValBits - 1) : \E k \in 1..Len(values) : values[k] = MUX_VALUE(i, b)}

soc_data_tegra210 ==
    [reg_count |-> 3,
     values |-> tegra210_ahub_mux_values,
     items |-> Len(tegra210_ahub_mux_values),
     mask |-> [i \in 0..2 |-> XbarRegMask(tegra210_ahub_mux_values, i)]]

soc_data_tegra186 ==
    [reg_count |-> 4,
     values |-> tegra186_ahub_mux_values,
     items |-> Len(tegra186_ahub_mux_values),
     mask |-> [i \in 0..3 |-> XbarRegMask(tegra186_ahub_mux_values, i)]]

SocData(chip) ==
    IF chip = "tegra210" THEN soc_data_tegra210 ELSE soc_data_tegra186

(* a widget of either chip with no input selected *)
InitAhub ==
    /\ ViNone /\ IspIdle /\ HsmIdle /\ SetupIdle /\ DceIdle /\ EthIdle
    /\ \E chip \in {"tegra210", "tegra186"} :
         ahub = [chip |-> chip,
                 regs |-> [i \in 0..(SocData(chip).reg_count - 1) |-> {}],
                 op |-> "none", item |-> 0, ret |-> 0]

(* ffs: the position, counted from 1, of the lowest set bit; 0 for none *)
ffs(word) == IF word = {} THEN 0 ELSE 1 + Min(word)

(* tegra_ahub_get_value_enum: the item whose value is the position of the
   first set bit of the first part that has one; item is left as it was
   when no value of the enum matches *)
GetValueEnum(soc, regs, item) ==
    LET set == {i \in DOMAIN regs : regs[i] \cap soc.mask[i] # {}}
        bit_pos == IF set = {} THEN 0
                   ELSE ffs(regs[Min(set)] \cap soc.mask[Min(set)])
                            + ValBits * Min(set)
        found == {k \in 1..soc.items : soc.values[k] = bit_pos}
    IN  IF found = {} THEN item ELSE Min(found) - 1

RegIdx_of_value(value) == value \div ValBits

(* the part of the MUX register that holds the input with this value *)
RegIdx(value) == (value - 1) \div ValBits

(* the update of part i for the new value: the part of the input gets the
   input's bit, every other part gets 0; it is applied under the mask when
   snd_soc_component_test_bits sees a change *)
PutRegs(soc, regs, value) ==
    [i \in DOMAIN regs |->
        LET val == IF value # 0 /\ i = RegIdx(value)
                   THEN {(value - 1) % ValBits} ELSE {}
            change == regs[i] # (regs[i] \ soc.mask[i]) \cup val
        IN  IF change THEN (regs[i] \ soc.mask[i]) \cup (val \cap soc.mask[i])
            ELSE regs[i]]

tegra_ahub_put_value_enum ==
    /\ ahub # <<>>
    /\ \E item \in 0..(SocData(ahub.chip).items + 1) :
         LET soc == SocData(ahub.chip)
         IN  ahub' = IF item >= soc.items
                     THEN [ahub EXCEPT !.op = "put", !.item = item,
                                       !.ret = -22]
                     ELSE [ahub EXCEPT !.op = "put", !.item = item,
                                       !.ret = 0,
                                       !.regs = PutRegs(soc, @,
                                                    soc.values[item + 1])]
    /\ UNCHANGED <<capvars, dce, eth>>

tegra_ahub_get_value_enum ==
    /\ ahub # <<>>
    /\ ahub' = [ahub EXCEPT !.op = "get", !.ret = 0,
                            !.item = GetValueEnum(SocData(ahub.chip),
                                                  ahub.regs, @)]
    /\ UNCHANGED <<capvars, dce, eth>>

NextAhub ==
    \/ tegra_ahub_put_value_enum
    \/ tegra_ahub_get_value_enum

SpecAhub == InitAhub /\ [][NextAhub]_vars

TypeOK ==
    /\ \A c \in Chans : chstate[c] \in {"Open", "Error"}
    /\ \A c \in Chans : cpc[c] \in {"idle", "frame", "written", "timedout", "drained"}

(* ---- properties ---- *)
Range(q) == {q[i] : i \in DOMAIN q}

IsTerminal(st) == st # CAPTURE_STATUS_UNKNOWN

IsError(st) == st \notin {CAPTURE_STATUS_UNKNOWN, CAPTURE_STATUS_SUCCESS}

Slots(c) == DOMAIN ring[c]

(* C1: on every channel the completions are signalled in submission order: *)
(* the i-th completion is that of the i-th submitted sequence number, and  *)
(* the request the consumer works on is the lowest one not yet completed.  *)
C1_CompletionOrder ==
    \A c \in Chans :
        /\ \A i \in DOMAIN completed[c] : completed[c][i] = i - 1
        /\ cur[c] # -1 =>
              /\ cur[c] < next_seq[c]
              /\ \A n \in 0..(cur[c] - 1) : n \in Range(completed[c])
              /\ cur[c] \notin Range(completed[c])

C1_Witness ==
    \E c \in Chans : Len(completed[c]) >= 2 /\ cfg[c].queue_depth >= 2

(* C2: no step overwrites a slot whose occupant has not completed, and a   *)
(* submit whose target slot holds a request whose threshold the producer   *)
(* has not observed reached is reported busy and leaves the ring as it is. *)
C2_NoOverwrite ==
    [][\A c \in Chans :
         /\ \A s \in Slots(c) :
              (ring[c][s].used /\ ring[c][s].sequence \notin Range(completed[c]))
                 => (ring'[c][s].used /\ ring'[c][s].sequence = ring[c][s].sequence)
         /\ (/\ Submit(c)
             /\ ring[c][Slot(c, next_seq[c])].used
             /\ observed[c] < Threshold(c, ring[c][Slot(c, next_seq[c])].sequence))
                 => (ring' = ring /\ next_seq' = next_seq
                     /\ submit_result'[c] \in {"busy", "inerror"})]_vars

C2_Witness ==
    \E c \in Chans :
        /\ submit_result[c] = "busy"
        /\ chstate[c] = "Open"
        /\ ring[c][Slot(c, next_seq[c])].used
        /\ ring[c][Slot(c, next_seq[c])].sequence \notin Range(completed[c])
        /\ next_seq[c] >= cfg[c].queue_depth

(* C3: whenever the progress syncpoint has reached the threshold of the    *)
(* request held in a slot, that request's status is terminal; the same     *)
(* holds for the value the polling producer has observed.                  *)
C3_StatusBeforeFence ==
    \A c \in Chans : \A s \in Slots(c) :
        (ring[c][s].used /\ syncpt[c] >= Threshold(c, ring[c][s].sequence))
            => IsTerminal(ring[c][s].status)

C3_Witness ==
    \E c \in Chans : \E s \in Slots(c) :
        /\ ring[c][s].used
        /\ observed[c] >= Threshold(c, ring[c][s].sequence)
        /\ IsTerminal(ring[c][s].status)
        /\ cfg[c].slices > 0

(* C4: a slot's status is unknown exactly until the one terminal write of  *)
(* its occupancy, and a terminal status never changes while the slot holds *)
(* the same request.                                                       *)
C4_SingleTerminalWrite ==
    [][\A c \in Chans : \A s \in Slots(c) :
         /\ nwrites'[c][s] <= 1
         /\ ring'[c][s].used =>
               (ring'[c][s].status = CAPTURE_STATUS_UNKNOWN <=> nwrites'[c][s] = 0)
         /\ (/\ ring[c][s].used
             /\ IsTerminal(ring[c][s].status)
             /\ ring'[c][s].sequence = ring[c][s].sequence)
               => ring'[c][s].status = ring[c][s].status]_vars

C4_Witness ==
    \E c \in Chans : \E s, t \in Slots(c) :
        /\ ring[c][s].used /\ ring[c][s].status = CAPTURE_STATUS_SUCCESS
        /\ ring[c][t].used /\ IsError(ring[c][t].status)
        /\ nwrites[c][s] = 1 /\ nwrites[c][t] = 1
        /\ resetting[c]

MaskU(c) == cfg[c].error_mask_uncorrectable

MaskC(c) == cfg[c].error_mask_correctable

Reported(c, e, sev) == <<e, sev>> \in reports[c]

Detected(c, f) == ev[c].kind = "fault" /\ ev[c].fault = f

(* C5: on a channel whose error masks are in effect, an error number set   *)
(* in both masks is never reported, neither corrected nor uncorrected.     *)
C5_BothMasksSuppress ==
    \A c \in Chans : \A f \in Faults :
        (MasksInEffect(c) /\ ErrNum(f) \in MaskU(c) /\ ErrNum(f) \in MaskC(c))
            => /\ ~Reported(c, ErrNum(f), "corrected")
               /\ ~Reported(c, ErrNum(f), "uncorrected")

C5_Witness ==
    \E c \in Chans : \E f, g \in Faults :
        /\ MasksInEffect(c)
        /\ ErrNum(f) \in MaskU(c) /\ ErrNum(f) \in MaskC(c)
        /\ Detected(c, f)
        /\ ErrNum(g) \notin MaskU(c)
        /\ reports[c] = {}

(* C6 as stated: an error number set in error_mask_uncorrectable and not   *)
(* in error_mask_correctable is reported corrected when detected and never *)
(* uncorrected, on every channel.                                          *)
C6_Original ==
    \A c \in Chans : \A f \in Faults :
        (ErrNum(f) \in MaskU(c) /\ ErrNum(f) \notin MaskC(c))
            => /\ ~Reported(c, ErrNum(f), "uncorrected")
               /\ Detected(c, f) => Reported(c, ErrNum(f), "corrected")

(* C6: on a channel with CAPTURE_CHANNEL_FLAG_ENABLE_HSM_ERROR_MASKS set,  *)
(* an error number set in error_mask_uncorrectable and not in              *)
(* error_mask_correctable is reported corrected when detected and never    *)
(* uncorrected.                                                            *)
C6_MaskedIsCorrected ==
    \A c \in Chans : \A f \in Faults :
        (MasksInEffect(c) /\ ErrNum(f) \in MaskU(c) /\ ErrNum(f) \notin MaskC(c))
            => /\ ~Reported(c, ErrNum(f), "uncorrected")
               /\ Detected(c, f) => Reported(c, ErrNum(f), "corrected")

C6_Witness ==
    \E c \in Chans : \E f \in Faults :
        /\ MasksInEffect(c)
        /\ ErrNum(f) \in MaskU(c) /\ ErrNum(f) \notin MaskC(c)
        /\ Detected(c, f)
        /\ Reported(c, ErrNum(f), "corrected")

(* C7 as stated: an error number set in neither mask is reported           *)
(* uncorrected when detected, on every channel.                            *)
C7_Original ==
    \A c \in Chans : \A f \in Faults :
        (ErrNum(f) \notin MaskU(c) /\ ErrNum(f) \notin MaskC(c) /\ Detected(c, f))
            => /\ Reported(c, ErrNum(f), "uncorrected")
               /\ ev[c].sev = "uncorrected"

(* C7: on a channel with CAPTURE_CHANNEL_FLAG_ENABLE_HSM_ERROR_MASKS set,  *)
(* an error number set in neither mask is reported uncorrected when        *)
(* detected; with both masks zero every detected fault is.                 *)
C7_UnmaskedIsUncorrected ==
    \A c \in Chans : \A f \in Faults :
        (/\ MasksInEffect(c)
         /\ ErrNum(f) \notin MaskU(c) /\ ErrNum(f) \notin MaskC(c)
         /\ Detected(c, f))
            => /\ Reported(c, ErrNum(f), "uncorrected")
               /\ ev[c].sev = "uncorrected"

C7_Witness ==
    \E c \in Chans : \E f \in Faults :
        /\ MasksInEffect(c)
        /\ MaskU(c) = {} /\ MaskC(c) = {}
        /\ Detected(c, f)
        /\ Reported(c, ErrNum(f), "uncorrected")

StopBit(c, f) == NotifyBit(f) \in cfg[c].stop_on_error_notify_bits

ResetOnError(c) == CAPTURE_CHANNEL_FLAG_RESET_ON_ERROR \in cfg[c].channel_flags

(* C8 as stated: a detected fault moves the channel to Error if it is      *)
(* classified uncorrected or its bit is in stop_on_error_notify_bits, and  *)
(* leaves it Open if it is classified corrected and its bit is not there.  *)
C8_Original ==
    \A c \in Chans : \A f \in Faults :
        Detected(c, f) =>
            /\ (ev[c].sev = "uncorrected" \/ StopBit(c, f)) => chstate[c] = "Error"
            /\ (ev[c].sev = "corrected" /\ ~StopBit(c, f)) => chstate[c] = "Open"

(* C8: a detected fault moves the channel to Error if it is classified     *)
(* uncorrected, its bit is in stop_on_error_notify_bits or                 *)
(* CAPTURE_CHANNEL_FLAG_RESET_ON_ERROR is set, and leaves it Open if it is *)
(* classified corrected, its bit is not there and the flag is not set; a   *)
(* bit in stop_on_error_notify_bits forces Error whatever the masks say.   *)
C8_ErrorTransition ==
    \A c \in Chans : \A f \in Faults :
        Detected(c, f) =>
            /\ (ev[c].sev = "uncorrected" \/ StopBit(c, f) \/ ResetOnError(c))
                   => chstate[c] = "Error"
            /\ (ev[c].sev = "corrected" /\ ~StopBit(c, f) /\ ~ResetOnError(c))
                   => chstate[c] = "Open"

C8_Witness ==
    \E c \in Chans : \E f, g \in Faults :
        /\ Detected(c, f)
        /\ ev[c].sev = "corrected"
        /\ StopBit(c, f) /\ ~StopBit(c, g) /\ ~ResetOnError(c)
        /\ chstate[c] = "Error"

(* C9: a submit on a channel in Error is rejected and changes neither the  *)
(* ring, the sequence counter nor the syncpoint, and a channel leaves      *)
(* Error only by the completion of a requested reset.                      *)
C9_ErrorRejectsSubmit ==
    [][\A c \in Chans :
         /\ (chstate[c] = "Error" /\ Submit(c))
               => /\ submit_result'[c] = "inerror"
                  /\ ring' = ring /\ next_seq' = next_seq /\ syncpt' = syncpt
                  /\ chstate'[c] = "Error"
         /\ (chstate[c] = "Error" /\ chstate'[c] # "Error")
               => (resetting[c] /\ ResetDone(c))]_vars

C9_Witness ==
    \E c \in Chans :
        /\ chstate[c] = "Error"
        /\ submit_result[c] = "inerror"
        /\ SlotFree(c, Slot(c, next_seq[c]))
        /\ Pending(c) # {}
        /\ next_seq[c] < MaxSeq

C11_SequenceContinues ==
    [][\A c \in Chans :
         /\ ResetDone(c) =>
               /\ chstate'[c] = "Open"
               /\ next_seq'[c] = next_seq[c]
               /\ ring' = ring /\ syncpt' = syncpt
               /\ \/ ~ring[c][Slot(c, next_seq[c])].used
                  \/ syncpt[c] >= Threshold(c, ring[c][Slot(c, next_seq[c])].sequence)
         /\ next_seq'[c] # next_seq[c] =>
               /\ Submit(c)
               /\ submit_result'[c] = "accepted"
               /\ next_seq'[c] = next_seq[c] + 1
         /\ (Submit(c) /\ submit_result'[c] = "accepted") =>
               /\ ring'[c][Slot(c, next_seq[c])].sequence = next_seq[c]
               /\ \A n \in Range(completed[c]) : n < next_seq[c]
               /\ \A s \in Slots(c) :
                     ring[c][s].used => ring[c][s].sequence < next_seq[c]]_vars

C11_Witness ==
    \E c \in Chans : \E s, t \in Slots(c) :
        /\ chstate[c] = "Open"
        /\ submit_result[c] = "accepted"
        /\ ring[c][s].used
        /\ CAPTURE_STATUS_FLAG_CHANNEL_IN_ERROR \in ring[c][s].flags
        /\ ring[c][t].used
        /\ ring[c][t].status = CAPTURE_STATUS_UNKNOWN
        /\ ring[c][t].sequence = ring[c][s].sequence + 1
        /\ next_seq[c] = ring[c][t].sequence + 1

SignalStep(c) ==
    \/ ConsumeStart(c)
    \/ SliceWritten(c)
    \/ SignalCompletion(c)
    \/ TimeoutSignal(c)
    \/ DrainSignal(c)

(* C12: no step decreases the progress syncpoint of a channel, through     *)
(* faults, timeouts and resets included; only the consumer's signal steps  *)
(* change it, and each of them increases it.                               *)
C12_FenceMonotonic ==
    [][\A c \in Chans :
         /\ syncpt'[c] >= syncpt[c]
         /\ syncpt'[c] # syncpt[c] => SignalStep(c)
         /\ SignalStep(c) => syncpt'[c] > syncpt[c]]_vars

C12_Witness ==
    \E c \in Chans : \E s \in Slots(c) :
        /\ chstate[c] = "Open"
        /\ ring[c][s].used
        /\ CAPTURE_STATUS_NOTIFY_BIT_CHANSEL_FAULT_FE \in ring[c][s].notify_bits
        /\ syncpt[c] > Threshold(c, ring[c][s].sequence)
        /\ cpc[c] = "frame"

Outstanding(c) == Cardinality(Pending(c))

(* C14: a channel never has more than queue_depth requests outstanding,    *)
(* every outstanding request sits in its own slot of the ring, and a       *)
(* submit made while queue_depth requests are outstanding is turned down   *)
(* and leaves the ring and the sequence counter as they are.               *)
C14_QueueDepthBound ==
    [][\A c \in Chans :
         /\ Outstanding(c) <= cfg[c].queue_depth
         /\ Outstanding(c)' <= cfg[c].queue_depth
         /\ \A n \in Pending(c)' :
               /\ ring'[c][Slot(c, n)].used
               /\ ring'[c][Slot(c, n)].sequence = n
         /\ (Submit(c) /\ Outstanding(c) = cfg[c].queue_depth)
               => /\ submit_result'[c] \in {"busy", "inerror"}
                  /\ ring' = ring /\ next_seq' = next_seq]_vars

C14_Witness ==
    \E c \in Chans :
        /\ cfg[c].queue_depth >= 2
        /\ Outstanding(c) = cfg[c].queue_depth
        /\ submit_result[c] = "busy"
        /\ observed[c] = syncpt[c]
        /\ next_seq[c] < MaxSeq

TimedOut(c) == FrameStartTimeout(c) \/ FrameCompletionTimeout(c)

StepOf(c) == Submit(c) \/ Poll(c) \/ ConsumerStep(c) \/ ResetReq(c)

Untouched(c) ==
    /\ ring'[c] = ring[c] /\ nwrites'[c] = nwrites[c]
    /\ next_seq'[c] = next_seq[c] /\ observed'[c] = observed[c]
    /\ syncpt'[c] = syncpt[c] /\ processed'[c] = processed[c]
    /\ chstate'[c] = chstate[c] /\ resetting'[c] = resetting[c]
    /\ cur'[c] = cur[c] /\ cpc'[c] = cpc[c] /\ cslice'[c] = cslice[c]

(* C16: while another channel is in Error or being reset, the consumer can *)
(* start the next request of an Open channel whose sensor delivers frames, *)
(* and carries on with the request it is working on; no step of one        *)
(* channel changes the ring, syncpoint, sequence, state or consumer        *)
(* position of another; and every outstanding request of channel 2 is      *)
(* completed, or channel 2 itself enters Error, whatever channel 1 does.   *)
C16_ChannelsIndependent ==
    /\ [](\A a, b \in Chans :
            (/\ a # b /\ chstate[a] = "Error"
             /\ chstate[b] = "Open" /\ stream[b] = "frames") =>
                /\ (cpc[b] = "idle" /\ Pending(b) # {}) => ENABLED ConsumeStart(b)
                /\ (cpc[b] = "frame" /\ cslice[b] < cfg[b].slices)
                       => ENABLED SliceWritten(b)
                /\ (cpc[b] = "frame" /\ cslice[b] = cfg[b].slices)
                       => ENABLED WriteStatusOk(b)
                /\ cpc[b] = "written" => ENABLED SignalCompletion(b))
    /\ [][\A a, b \in Chans : (a # b /\ StepOf(a)) => Untouched(b)]_vars
    /\ \A n \in 0..(MaxSeq - 1) :
          (n \in Pending(2)) ~> (n \in processed[2] \/ chstate[2] = "Error")

C16_Witness ==
    /\ chstate[1] = "Error"
    /\ cpc[1] = "drained"
    /\ chstate[2] = "Open"
    /\ cpc[2] = "written"
    /\ ring[2][0].status = CAPTURE_STATUS_SUCCESS
    /\ syncpt[2] > observed[2]
(* ---- program binding ---- *)
Consumed == 1..isp_consumed

Bound(r) == isp_requests[r].program_buffer_index

WantsBinding(r) ==
    CAPTURE_ISP_FLAG_ISP_PROGRAM_BINDING \in isp_requests[r].capture_flags

IsCoupled(p) == CAPTURE_ACTIVATE_FLAG_COUPLED \in isp_programs[p].activate_flags

(* the program most recently activated when request r was consumed *)
ActiveAtConsume(r) == isp_requests[r].taken_at_consume

ActiveAtSubmit(r) == isp_requests[r].taken_at_submit

IspConsumeStep == isp_consumed' = isp_consumed + 1

(* C17: a program activated on settings id or on sequence id stays the     *)
(* active program for every process request consumed until the next        *)
(* activation: each such request that asks for binding resolves to it (so  *)
(* two requests consumed under program A both resolve to A), and consuming *)
(* a request neither changes the active program nor makes it stale.        *)
C17_ProgramStaysActive ==
    /\ [](\A r \in Consumed :
            (/\ WantsBinding(r)
             /\ ActiveAtConsume(r) # NoProgram
             /\ ~IsCoupled(ActiveAtConsume(r)))
            => /\ Bound(r) = ActiveAtConsume(r)
               /\ isp_requests[r].fault # "unresolved_binding")
    /\ [][IspConsumeStep =>
            /\ isp_active' = isp_active
            /\ \A p \in isp_active :
                  ~IsCoupled(p) =>
                    isp_programs'[p].status # CAPTURE_ISP_PROGRAM_STATUS_STALE]_vars

C17_Witness ==
    \E ra, rb \in Consumed : \E p \in Programs :
        /\ ra < rb
        /\ CAPTURE_ACTIVATE_FLAG_ON_SETTINGS_ID \in isp_programs[p].activate_flags
        /\ ActiveAtSubmit(ra) = p /\ ActiveAtSubmit(rb) = p
        /\ ActiveAtConsume(ra) = p /\ ActiveAtConsume(rb) = p
        /\ Bound(ra) = p /\ Bound(rb) = p
        /\ isp_active = {p}

(* C18: a coupled program serves one process request: no two requests     *)
(* resolve to the same coupled program, and a request that asks for        *)
(* binding and is consumed while the latest activation is a coupled        *)
(* program an earlier request was bound to reports an unresolved-binding   *)
(* fault and is bound to no program.                                       *)
C18_CoupledOneToOne ==
    /\ \A ra, rb \in Consumed :
          (ra # rb /\ Bound(ra) # NoProgram /\ Bound(ra) = Bound(rb))
          => ~IsCoupled(Bound(ra))
    /\ \A ra, rb \in Consumed :
          (/\ ra < rb
           /\ WantsBinding(rb)
           /\ ActiveAtConsume(rb) # NoProgram
           /\ IsCoupled(ActiveAtConsume(rb))
           /\ Bound(ra) = ActiveAtConsume(rb))
          => /\ isp_requests[rb].status = CAPTURE_ISP_STATUS_ERROR
             /\ isp_requests[rb].fault = "unresolved_binding"
             /\ Bound(rb) = NoProgram

C18_Witness ==
    \E ra, rb \in Consumed : \E p \in Programs :
        /\ rb = ra + 1
        /\ IsCoupled(p)
        /\ Bound(ra) = p
        /\ WantsBinding(rb)
        /\ ActiveAtConsume(rb) = p
        /\ isp_requests[rb].fault = "unresolved_binding"
        /\ Bound(rb) = NoProgram

(* C19: at most one program is active at any time, so at most one for the  *)
(* sequence number of any request; an active program is not stale; a       *)
(* program whose status is stale keeps that status in every later state,   *)
(* is never active again, and the program a consumed request is bound to   *)
(* was not stale when it was bound.                                        *)
C19_OneActiveStaleTerminal ==
    /\ [](/\ Cardinality(isp_active) <= 1
          /\ \A p \in isp_active :
                isp_programs[p].status # CAPTURE_ISP_PROGRAM_STATUS_STALE)
    /\ [][\A p \in Programs :
            isp_programs[p].status = CAPTURE_ISP_PROGRAM_STATUS_STALE
            => /\ isp_programs'[p].status = CAPTURE_ISP_PROGRAM_STATUS_STALE
               /\ p \notin isp_active'
               /\ IspConsumeStep =>
                    isp_requests'[isp_consumed + 1].program_buffer_index # p]_vars

C19_Witness ==
    \E p, q \in Programs : \E r \in Consumed :
        /\ isp_programs[p].status = CAPTURE_ISP_PROGRAM_STATUS_STALE
        /\ isp_active = {q}
        /\ p < q
        /\ ActiveAtSubmit(r) = p
        /\ ActiveAtConsume(r) = q
        /\ Bound(r) = q

Used == {CAPTURE_ISP_PROGRAM_STATUS_SUCCESS, CAPTURE_ISP_PROGRAM_STATUS_ERROR}

(* the coupled program active when r was consumed had served a request *)
CoupledSpent(r) ==
    /\ ActiveAtConsume(r) # NoProgram
    /\ IsCoupled(ActiveAtConsume(r))
    /\ \E ra \in Consumed : ra < r /\ Bound(ra) = ActiveAtConsume(r)

(* C20 as stated: whenever a program is activated between the submission   *)
(* and the consumption of a request, the request resolves to that program. *)
C20_Original ==
    \A r \in Consumed :
        (WantsBinding(r) /\ ActiveAtSubmit(r) < ActiveAtConsume(r))
        => Bound(r) = ActiveAtConsume(r)

(* C20: a process request is bound as of its consumption: it resolves to   *)
(* the program active when it is consumed, whatever was active when it was *)
(* submitted, unless that program is a coupled program an earlier request  *)
(* was bound to, and then it is unresolved and is not bound to the program *)
(* of its submission time either. When a request is bound, the bound       *)
(* program's status reads used (success or error) and every program        *)
(* activated before it reads stale.                                        *)
C20_BoundAtConsumption ==
    /\ [](\A r \in Consumed :
            (WantsBinding(r) /\ ActiveAtConsume(r) # NoProgram)
            => IF CoupledSpent(r)
               THEN /\ Bound(r) = NoProgram
                    /\ isp_requests[r].fault = "unresolved_binding"
               ELSE Bound(r) = ActiveAtConsume(r))
    /\ [][(IspConsumeStep /\
           isp_requests'[isp_consumed + 1].program_buffer_index # NoProgram)
          => LET p == isp_requests'[isp_consumed + 1].program_buffer_index
             IN /\ isp_programs'[p].status \in Used
                /\ \A q \in 1..(p - 1) :
                     isp_programs'[q].status = CAPTURE_ISP_PROGRAM_STATUS_STALE]_vars

C20_Witness ==
    \E r \in Consumed :
        /\ WantsBinding(r)
        /\ ActiveAtSubmit(r) # NoProgram
        /\ ActiveAtSubmit(r) < ActiveAtConsume(r)
        /\ Bound(r) = ActiveAtConsume(r)
        /\ isp_programs[ActiveAtSubmit(r)].status = CAPTURE_ISP_PROGRAM_STATUS_STALE
        /\ isp_programs[Bound(r)].status \in Used

(* ---- fatal CSIMUX errors ---- *)
FatalReported ==
    /\ hsm_report # <<>>
    /\ hsm_report.error \in FatalCsimuxErrors

BadGeometry(conf) ==
    \/ conf.requests = 0
    \/ conf.requests % CAPTURE_DESCRIPTOR_ALIGN_BYTES # 0
    \/ conf.request_size % CAPTURE_DESCRIPTOR_ALIGN_BYTES # 0
    \/ conf.request_size < DescriptorSize
    \/ conf.queue_depth \notin 1..QUEUE_DEPTH_MAX

(* C22: a setup request whose ring base address is zero or not a multiple  *)
(* of the descriptor alignment, whose slot size is not such a multiple or  *)
(* is smaller than a descriptor, or whose queue depth is outside 1..240 is *)
(* answered with an error and leaves no channel behind; a channel that     *)
(* exists, and so every descriptor that is consumed, comes from a request  *)
(* with none of these defects.                                             *)
C22_SetupRejects ==
    /\ []((setup_req # <<>> /\ BadGeometry(setup_req))
          => (setup_result = "error" /\ Chans = {}))
    /\ [](Chans # {}
          => /\ ~BadGeometry(setup_req)
             /\ setup_result = "ok"
             /\ cfg[1].queue_depth = setup_req.queue_depth)
    /\ [][(setup_req' # <<>> /\ BadGeometry(setup_req'))
          => UNCHANGED vivars]_vars

C22_Witness ==
    /\ setup_result = "error"
    /\ Chans = {}
    /\ setup_req.requests = CAPTURE_DESCRIPTOR_ALIGN_BYTES
    /\ setup_req.request_size = DescriptorSize
    /\ setup_req.queue_depth = QUEUE_DEPTH_MAX + 1

(* ---- collision ---- *)
HasCollision(c, n) ==
    \/ ring[c][Slot(c, n)].status = CAPTURE_STATUS_CHANSEL_COLLISION
    \/ CAPTURE_STATUS_NOTIFY_BIT_CHANSEL_COLLISION \in ring[c][Slot(c, n)].notify_bits

BothMatch == Cardinality(Chans) = 2 /\ \A c \in Chans : MatchesFrame(c)

(* C23: when both channels match the incoming frame, the step that takes   *)
(* the frame makes exactly one channel capture it, with the status of its  *)
(* request still unknown and without collision bit, and writes the         *)
(* collision into the status of the other channel's request; the request   *)
(* of a channel that is capturing or has captured a frame never carries    *)
(* the collision.                                                          *)
C23_CollisionOnLoser ==
    /\ [][(BothMatch /\ cpc' # cpc)
          => \E w \in Chans : \E l \in Chans \ {w} :
                /\ cpc'[w] = "frame"
                /\ cpc'[l] # "frame"
                /\ ring'[w][Slot(w, cur'[w])].status = CAPTURE_STATUS_UNKNOWN
                /\ ring'[w][Slot(w, cur'[w])].notify_bits = {}
                /\ ring'[l][Slot(l, cur'[l])].status = CAPTURE_STATUS_CHANSEL_COLLISION
                /\ CAPTURE_STATUS_NOTIFY_BIT_CHANSEL_COLLISION
                      \in ring'[l][Slot(l, cur'[l])].notify_bits]_vars
    /\ [](\A c \in Chans :
            cpc[c] \in {"frame", "written"} => ~HasCollision(c, cur[c]))

C23_Witness ==
    \E w \in Chans : \E l \in Chans \ {w} :
        /\ cpc[w] = "written"
        /\ ring[w][Slot(w, cur[w])].status = CAPTURE_STATUS_SUCCESS
        /\ cpc[l] = "timedout"
        /\ ev[l].fault = "COLLISION"
        /\ HasCollision(l, cur[l])

(* ---- wrap-around ---- *)
(* sequences 0..3 are submitted, the producer has seen the fence at the    *)
(* threshold of sequence 0 and the channel takes requests                  *)
WrapReady ==
    /\ cfg[1].queue_depth = WrapDepth
    /\ next_seq[1] = WrapDepth
    /\ chstate[1] = "Open"
    /\ observed[1] >= Threshold(1, 0)

(* C24: on a ring of four slots with sequences 0..3 submitted, once the    *)
(* producer has seen the fence reach the threshold of sequence 0, a submit *)
(* of sequence 4 is accepted into slot 0 and cannot be refused, whether or *)
(* not sequences 1, 2 and 3 are still outstanding; and a submit is refused *)
(* as busy only when the occupant of its own target slot has not been seen *)
(* complete.                                                               *)
C24_WrapAround ==
    /\ WrapReady =>
         /\ ENABLED (/\ Submit(1)
                     /\ next_seq'[1] = WrapDepth + 1
                     /\ submit_result'[1] = "accepted"
                     /\ ring'[1][0].sequence = WrapDepth
                     /\ ring'[1][0].status = CAPTURE_STATUS_UNKNOWN)
         /\ ~ENABLED (Submit(1) /\ submit_result'[1] # "accepted")
    /\ \A c \in Chans :
         ENABLED (Submit(c) /\ submit_result'[c] = "busy")
         => LET occupant == ring[c][Slot(c, next_seq[c])]
            IN /\ occupant.used
               /\ observed[c] < Threshold(c, occupant.sequence)

C24_Witness ==
    /\ cfg[1].queue_depth = WrapDepth
    /\ next_seq[1] = WrapDepth + 1
    /\ ring[1][0].sequence = WrapDepth
    /\ submit_result[1] = "accepted"
    /\ processed[1] = {0, 1}
    /\ ring[1][2].status = CAPTURE_STATUS_UNKNOWN
    /\ ring[1][3].status = CAPTURE_STATUS_UNKNOWN

(* ---- slot ownership ---- *)
(* who may write slot s of channel c: the consumer from the submission of  *)
(* the occupant until the progress syncpoint reaches its threshold         *)
Owner(c, s) ==
    IF ring[c][s].used /\ syncpt[c] < Threshold(c, ring[c][s].sequence)
    THEN "consumer" ELSE "producer"

(* the producer writes a slot by putting a request into it *)
ProducerWrites(c, s) ==
    /\ ring'[c][s].used
    /\ ~ring[c][s].used \/ ring'[c][s].sequence # ring[c][s].sequence

(* the consumer writes the status record of the request a slot holds *)
ConsumerWrites(c, s) ==
    /\ ring'[c][s] # ring[c][s]
    /\ ~ProducerWrites(c, s)

(* C25: every write to a descriptor slot is made by its owner: the         *)
(* producer writes a slot only when it is empty or the progress syncpoint  *)
(* has reached the threshold of its occupant, the consumer only between    *)
(* the submission and that moment, so never after it has signalled the     *)
(* completion; no step is a write of both, and the only way the ownership  *)
(* passes to the consumer is the producer's submission.                    *)
C25_SlotOwnership ==
    [][\A c \in Chans : \A s \in Slots(c) :
         /\ ProducerWrites(c, s) => Owner(c, s) = "producer"
         /\ ConsumerWrites(c, s) => Owner(c, s) = "consumer"
         /\ (Owner(c, s) = "producer" /\ Owner(c, s)' = "consumer")
              => ProducerWrites(c, s)]_vars

C25_Witness ==
    \E c \in Chans : \E s \in Slots(c) :
        /\ ring[c][s].used
        /\ ring[c][s].sequence >= cfg[c].queue_depth
        /\ IsTerminal(ring[c][s].status)
        /\ Owner(c, s) = "consumer"
        /\ \E t \in Slots(c) : t # s /\ Owner(c, t) = "producer"

(* the three initialisation steps of dce_driver_init, in the order called *)
DceSteps ==
    <<"dce_boot_interface_init", "dce_admin_init", "dce_worker_thread_init">>

(* the de-initialisation function of each step *)
DceDeinitOf ==
    <<"dce_boot_interface_deinit", "dce_admin_deinit",
      "dce_worker_thread_deinit">>

(* the first k steps called in order, each returning 0 *)
DceInitsOk(k) == [i \in 1..k |-> <<DceSteps[i], 0>>]

(* the first k steps de-initialised in reverse order *)
DceUnwind(k) == [i \in 1..k |-> <<DceDeinitOf[k + 1 - i], 0>>]

(* dce_driver_init has returned and dce_driver_deinit has not run *)
DceReturned == dce # <<>> /\ dce.pc = "return"

(* C26: dce_driver_init returns 0 only after the boot interface, admin and
   worker thread initialisations all returned 0, called in that order, and
   then it leaves boot_status as it was on entry; when step k+1 fails it
   returns that step's non-zero code, has de-initialised exactly the k steps
   that succeeded, in reverse order, and boot_status is the entry value
   with DCE_STATUS_FAILED set *)
C26_InitUnwinds ==
    DceReturned =>
        \/ /\ dce.ret = 0
           /\ dce.calls = DceInitsOk(Len(DceSteps))
           /\ dce.boot_status = dce.entry_status
        \/ /\ dce.ret # 0
           /\ \E k \in 0..(Len(DceSteps) - 1) :
                dce.calls = DceInitsOk(k) \o <<<<DceSteps[k + 1], dce.ret>>>>
                                \o DceUnwind(k)
           /\ dce.boot_status = dce.entry_status \cup {"DCE_STATUS_FAILED"}

(* the admin initialisation failed after the boot interface succeeded *)
C26_Witness ==
    /\ DceReturned
    /\ dce.ret # 0
    /\ Len(dce.calls) = Len(DceSteps)
    /\ dce.calls[Len(dce.calls)] = <<"dce_boot_interface_deinit", 0>>
    /\ "DCE_STATUS_FAILED" \notin dce.entry_status

(* a store handler of the nvethernet group runs from entry to return *)
StoreStep == eth # <<>> /\ eth.pc = "idle" /\ eth'.pc = "returned"

(* C27: a store handler of the nvethernet group that runs while the
   interface is not running returns the size of the input and leaves the
   driver and the hardware as they were: no OSI call or ioctl is made, no
   table is written, no flag, mode or MACsec state is updated and the
   carrier is not changed, whatever the input *)
C27_StoreNotRunning ==
    [][(StoreStep /\ ~eth.running) =>
          /\ eth'.ret = eth'.size
          /\ eth'.calls = <<>>
          /\ eth' = [eth EXCEPT !.pc = "returned", !.size = eth'.size,
                                !.ret = eth'.size]]_vars

(* a write made after the interface was configured and brought down *)
C27_Witness ==
    /\ eth # <<>>
    /\ eth.pc = "returned"
    /\ ~eth.running
    /\ eth.ret > 0
    /\ eth.carrier
    /\ eth.table # "none"
    /\ eth.enabled # {}

(* C29: the recorded MACsec state, which macsec_enable_show prints, is the
   set of controllers that are enabled in the hardware, after any sequence
   of writes to macsec_enable *)
C29_RecordedIsEnabled ==
    eth # <<>> =>
        macsec_enable_show(eth.enabled) = macsec_enable_show(eth.hw_enabled)

(* C28: on a channel with CAPTURE_CHANNEL_FLAG_ENABLE_HSM_ERROR_MASKS set,
   an error number set in error_mask_correctable and not set in
   error_mask_uncorrectable is reported uncorrected when detected and is
   never reported corrected: the correctable mask acts only on error
   numbers that error_mask_uncorrectable masks; on a channel without the
   flag the masks applied do not depend on the two fields *)
C28_CorrectableOnlyWithinUncorrectable ==
    \A c \in Chans :
        /\ MasksInEffect(c) =>
             \A f \in Faults :
                 (ErrNum(f) \in MaskC(c) /\ ErrNum(f) \notin MaskU(c))
                     => /\ ~Reported(c, ErrNum(f), "corrected")
                        /\ Detected(c, f)
                               => /\ Reported(c, ErrNum(f), "uncorrected")
                                  /\ ev[c].sev = "uncorrected"
        /\ ~MasksInEffect(c) =>
             \A mu \in SUBSET ErrNums : \A mc \in SUBSET ErrNums :
                 <<mu, mc>> \in EffectiveMasks(c)

C28_Witness ==
    \E c \in Chans : \E f \in Faults :
        /\ MasksInEffect(c)
        /\ ErrNum(f) \in MaskC(c) /\ ErrNum(f) \notin MaskU(c)
        /\ Detected(c, f)
        /\ Reported(c, ErrNum(f), "uncorrected")
        /\ ev[c].sev = "uncorrected"

(* tegra_ahub_put_value_enum runs *)
PutStep == ahub # <<>> /\ tegra_ahub_put_value_enum

(* the bits set in the parts of the MUX register, as <<part, bit>> *)
MuxBits(regs) ==
    {pb \in (DOMAIN regs) \X (0..(ValBits - 1)) : pb[2] \in regs[pb[1]]}

(* C30: tegra_ahub_put_value_enum of an item below e->items returns 0 and
   leaves at most one bit set in all the parts of the MUX register, none
   for the item with value 0, and tegra_ahub_get_value_enum on these
   registers gives the item back, whatever was selected before; an item
   that is not below e->items gives -EINVAL and changes no register *)
C30_MuxRoundTrip ==
    [][PutStep =>
          LET soc == SocData(ahub.chip)
              item == ahub'.item
          IN  IF item >= soc.items
              THEN ahub'.ret = -22 /\ ahub'.regs = ahub.regs
              ELSE /\ ahub'.ret = 0
                   /\ Cardinality(MuxBits(ahub'.regs))
                          = IF soc.values[item + 1] = 0 THEN 0 ELSE 1
                   /\ \A before \in {0, soc.items - 1} :
                          GetValueEnum(soc, ahub'.regs, before) = item]_vars

(* an input of the last part is selected after an input of the first, and
   read back *)
C30_Witness ==
    /\ ahub # <<>>
    /\ ahub.op = "get"
    /\ ahub.regs[0] = {}
    /\ ahub.regs[SocData(ahub.chip).reg_count - 1] # {}
    /\ SocData(ahub.chip).values[ahub.item + 1]
           > ValBits * (SocData(ahub.chip).reg_count - 1)

====
